---- MODULE Spec2Model ----
(***************************************************************************)
(* Payment lifecycle engine and transactional outbox of the ticketbottle   *)
(* payment service: the NestJS PaymentService / OutboxPublisherService and *)
(* the Lambda webhook handler / outbox processor, over one shared          *)
(* database (tables payments and outbox) and one message bus.              *)
(*                                                                         *)
(* Representation.  Strings of the program are kept as strings.  A value   *)
(* that may be absent (a nullable column, an undefined property) is a      *)
(* sequence: << >> for null/undefined and <<v>> for a value.  An order     *)
(* code is the sequence of its '_'-separated segments.  The column         *)
(* updatedAt, amountCents, currency, redirectUrl and metadata are carried  *)
(* by no operation the model covers and are left out of the rows.          *)
(***************************************************************************)
EXTENDS Integers, Sequences, FiniteSets, Bags, TLC

\* ------------------------------------------------------------------ bounds
MaxCalls    == 2   \* createPaymentIntent calls per behaviour
MaxRequests == 2   \* concurrent webhook / cancel requests
MaxTime     == 1   \* last clock value
MaxOutbox   == 2   \* outbox rows the table may hold
MaxFaults   == 3   \* broker / store faults injected into publishing
MaxLimit    == 2   \* largest limit of a fetch called with a limit of its own

\* -------------------------------------------------------- program constants
BATCH_SIZE         == 100
MAX_RETRIES        == 5
LAMBDA_BATCH_SIZE  == 50
LAMBDA_MAX_RETRIES == 3

\* ------------------------------------------------------------ input domains
Keys       == {"k1", "k2"}
OrderCodes == {<<"o1">>, <<"o2">>}
Providers  == {"ZALOPAY", "PAYOS", "VNPAY"}
Calls      == 1..MaxCalls

Null       == << >>
At(t)      == <<t>>
Undefined  == <<"undefined">>

VARIABLES
  payments,     \* table payments, in insertion order; row id = position
  outbox,       \* table outbox, in insertion order
  outboxSeq,    \* number of outbox rows ever inserted (source of row ids)
  bus,          \* the bus log: acknowledged messages, in log order
  now,          \* wall clock
  links,        \* number of payment links the providers have issued
  intent,       \* createPaymentIntent calls: position, dto, locals, result
  req,          \* bag of the webhook / cancel requests in flight: position, locals
  rowLock,      \* payments row locks held by open transactions
  pub,          \* OutboxPublisherService: flags, fetched batch, positions,
                \* onModuleDestroy's position; the Kafka producer's connection
  proc,         \* Lambda processOutbox run: batch, loop index, counters
  faults,       \* faults injected so far
  publisher,    \* the publisher deployed: "service" (in-process) or "lambda"
  sent          \* the answer of the handler that last finished after writing

vars == <<payments, outbox, outboxSeq, bus, now, links, intent, req,
          rowLock, pub, proc, faults, publisher, sent>>

\* ------------------------------------------------------------- payments
PENDING   == "PENDING"
COMPLETED == "COMPLETED"
FAILED    == "FAILED"
CANCELLED == "CANCELLED"
Terminal  == {COMPLETED, FAILED, CANCELLED}

\* The positions of a table.
Ids(s) == 1..Len(s)

\* prisma.payment.findUnique({ where: { idempotencyKey } })
RowsByIdempotencyKey(k) == {i \in Ids(payments) : payments[i].idempotencyKey = k}
RowsByOrderCode(o)      == {i \in Ids(payments) : payments[i].orderCode = o}
RowsByProviderTx(t)     == {i \in Ids(payments) : payments[i].providerTransactionId = t}

\* The mapper copies the listed columns only; paymentUrl, redirectUrl and
\* cancelledAt are not among them.
toPaymentEntity(p) ==
  [ id |-> p.id, orderCode |-> p.orderCode, provider |-> p.provider,
    providerTransactionId |-> p.providerTransactionId,
    idempotencyKey |-> p.idempotencyKey, status |-> p.status,
    completedAt |-> p.completedAt, failedAt |-> p.failedAt ]

\* Property read `entity.paymentUrl` of a JavaScript object.
PaymentUrlOf(e) == IF "paymentUrl" \in DOMAIN e THEN e.paymentUrl ELSE Undefined

\* PaymentRepository.findByIdempotencyKey: the entity, or Null.
findByIdempotencyKey(k) ==
  IF RowsByIdempotencyKey(k) = {} THEN Null
  ELSE <<toPaymentEntity(payments[CHOOSE i \in RowsByIdempotencyKey(k) : TRUE])>>

\* A payments table whose only unique index is the one on idempotencyKey.
UniqueViolation_KeyOnly(dto) == RowsByIdempotencyKey(dto.idempotencyKey) # {}

\* Unique indexes payments_idempotencyKey_key and payments_orderCode_key.
UniqueViolation(dto) ==
  \/ RowsByIdempotencyKey(dto.idempotencyKey) # {}
  \/ RowsByOrderCode(dto.orderCode) # {}

\* Row written by PaymentRepository.create.
NewPayment(id, dto) ==
  [ id |-> id, orderCode |-> dto.orderCode, idempotencyKey |-> dto.idempotencyKey,
    provider |-> dto.provider, providerTransactionId |-> dto.transactionId,
    paymentUrl |-> dto.paymentUrl, status |-> PENDING,
    completedAt |-> Null, failedAt |-> Null, cancelledAt |-> Null ]

\* ------------------------------------------------------------- gateways
DateStr(t) == ToString(t)

\* ZalopayGateWay.buildZaloPayAppTransId: YYMMDD_<orderCode>, by segments.
buildZaloPayAppTransId(orderCode, t) == <<DateStr(t)>> \o orderCode

\* gateway.createPaymentLink on success: { url, transactionId }.
\* ZaloPay returns its app_trans_id, PayOS the provider-assigned paymentLinkId.
createPaymentLink(provider, orderCode, t, n) ==
  [ url |-> <<"url", ToString(n)>>,
    transactionId |-> IF provider = "ZALOPAY"
                      THEN buildZaloPayAppTransId(orderCode, t)
                      ELSE <<"link", ToString(n)>> ]

\* PaymentGatewayFactory.getGateway: VNPay has no gateway.
Supported(provider) == provider \in {"ZALOPAY", "PAYOS"}

\* ------------------------------------------------ PaymentService.createPaymentIntent
IdleIntent == [pc |-> "idle"]

Dtos == [idempotencyKey : Keys, orderCode : OrderCodes, provider : Providers]

\* Lines 342-346: look the key up; on a hit return existing.paymentUrl.
IntentLookup(c) ==
  /\ intent[c].pc = "idle"
  /\ \E dto \in Dtos :
       LET existing == findByIdempotencyKey(dto.idempotencyKey) IN
       IF existing # Null
       THEN intent' = [intent EXCEPT ![c] =
              [pc |-> "done", dto |-> dto, outcome |-> "returned",
               url |-> PaymentUrlOf(existing[1]), error |-> "none"]]
       ELSE intent' = [intent EXCEPT ![c] = [pc |-> "miss", dto |-> dto]]
  /\ UNCHANGED <<payments, outbox, outboxSeq, bus, now, links, req, rowLock,
                 pub, proc, faults, publisher, sent>>

\* A createPaymentIntent that stores the payment before it calls the
\* provider, so that a failed call leaves a row without link behind.
IntentCreateLink_RowFirst(c) ==
  /\ intent[c].pc = "miss"
  /\ LET dto == intent[c].dto IN
     \/ /\ Supported(dto.provider)
        /\ LET out == createPaymentLink(dto.provider, dto.orderCode, now, links + 1) IN
           intent' = [intent EXCEPT ![c] =
             [pc |-> "linked",
              dto |-> [idempotencyKey |-> dto.idempotencyKey,
                       orderCode |-> dto.orderCode, provider |-> dto.provider,
                       transactionId |-> out.transactionId,
                       paymentUrl |-> out.url]]]
        /\ links' = links + 1
        /\ UNCHANGED payments
     \/ /\ intent' = [intent EXCEPT ![c] =
             [pc |-> "done", dto |-> dto, outcome |-> "threw", url |-> Undefined,
              error |-> IF Supported(dto.provider) THEN "ProviderError"
                        ELSE "UnsupportedProvider"]]
        /\ payments' = Append(payments,
                               NewPayment(Len(payments) + 1,
                                          [idempotencyKey |-> dto.idempotencyKey,
                                           orderCode |-> dto.orderCode,
                                           provider |-> dto.provider,
                                           transactionId |-> <<"none">>,
                                           paymentUrl |-> Undefined]))
        /\ UNCHANGED links
  /\ UNCHANGED <<outbox, outboxSeq, bus, now, req, rowLock,
                 pub, proc, faults, publisher, sent>>

\* Lines 348-359: getGateway, then the provider call; either may throw.
IntentCreateLink(c) ==
  /\ intent[c].pc = "miss"
  /\ LET dto == intent[c].dto IN
     \/ /\ Supported(dto.provider)
        /\ LET out == createPaymentLink(dto.provider, dto.orderCode, now, links + 1) IN
           intent' = [intent EXCEPT ![c] =
             [pc |-> "linked",
              dto |-> [idempotencyKey |-> dto.idempotencyKey,
                       orderCode |-> dto.orderCode, provider |-> dto.provider,
                       transactionId |-> out.transactionId,
                       paymentUrl |-> out.url]]]
        /\ links' = links + 1
     \/ /\ intent' = [intent EXCEPT ![c] =
             [pc |-> "done", dto |-> dto, outcome |-> "threw", url |-> Undefined,
              error |-> IF Supported(dto.provider) THEN "ProviderError"
                        ELSE "UnsupportedProvider"]]
        /\ UNCHANGED links
  /\ UNCHANGED <<payments, outbox, outboxSeq, bus, now, req, rowLock,
                 pub, proc, faults, publisher, sent>>

\* Lines 361-363: repo.create; a unique-index violation is thrown to the
\* caller, otherwise the row is inserted and the fresh url returned.
IntentInsert(c) ==
  /\ intent[c].pc = "linked"
  /\ LET dto == intent[c].dto IN
     IF UniqueViolation(dto)
     THEN /\ intent' = [intent EXCEPT ![c] =
               [pc |-> "done", dto |-> dto, outcome |-> "threw",
                url |-> Undefined, error |-> "UniqueConstraint"]]
          /\ UNCHANGED payments
     ELSE /\ payments' = Append(payments, NewPayment(Len(payments) + 1, dto))
          /\ intent' = [intent EXCEPT ![c] =
               [pc |-> "done", dto |-> dto, outcome |-> "returned",
                url |-> dto.paymentUrl, error |-> "none"]]
  /\ UNCHANGED <<outbox, outboxSeq, bus, now, links, req, rowLock,
                 pub, proc, faults, publisher, sent>>

\* The wall clock moves.
AdvanceClock ==
  /\ now < MaxTime
  /\ now' = now + 1
  /\ UNCHANGED <<payments, outbox, outboxSeq, bus, links, intent, req, rowLock,
                 pub, proc, faults, publisher, sent>>

\* ------------------------------------------------------- provider adapters
\* Callback bodies.  sigOk abstracts "the signature over the body verifies";
\* ptx is the app_trans_id (ZaloPay, by '_' segments) or paymentLinkId (PayOS).
UnknownPtx == <<"0", "zz">>

\* The app_trans_ids ZaloPay holds for the stored order codes: the gateway
\* builds one per createPaymentLink call, from the day of the call, before
\* the payment row is inserted, so the provider may hold one of another day
\* than the stored row's.
IssuedPtxs ==
  {buildZaloPayAppTransId(payments[i].orderCode, t) : i \in Ids(payments), t \in 0..MaxTime}

Ptxs == {payments[i].providerTransactionId : i \in Ids(payments)}
          \cup IssuedPtxs \cup {UnknownPtx}
ZaloBodies  == [provider : {"ZALOPAY"}, sigOk : BOOLEAN, type : {1, 2}, ptx : Ptxs]
PayosBodies == [provider : {"PAYOS"}, sigOk : BOOLEAN, code : {"00", "01"}, ptx : Ptxs]
Bodies == ZaloBodies \cup PayosBodies

initZaloPayCallbackRes(code, message) == [return_code |-> code, return_message |-> message]

\* A handleCallback that accepts every callback whose MAC matches.
ServiceZaloCallback_AnyType(body) ==
  IF ~body.sigOk
  THEN [success |-> FALSE, response |-> initZaloPayCallbackRes(-1, "Invalid mac"), pid |-> Null]
  ELSE [success |-> TRUE, response |-> initZaloPayCallbackRes(1, "Success"),
        pid |-> <<body.ptx>>]

\* ZalopayGateWay.handleCallback of the service.
ServiceZaloCallback(body) ==
  IF ~body.sigOk
  THEN [success |-> FALSE, response |-> initZaloPayCallbackRes(-1, "Invalid mac"), pid |-> Null]
  ELSE IF body.type # 1
  THEN [success |-> FALSE,
        response |-> initZaloPayCallbackRes(-1, "Unsupported callback type"), pid |-> Null]
  ELSE [success |-> TRUE, response |-> initZaloPayCallbackRes(1, "Success"),
        pid |-> <<body.ptx>>]

\* PayOSGateway.handleCallback of the service.
ServicePayosCallback(body) ==
  IF ~body.sigOk
  THEN [success |-> FALSE,
        response |-> [success |-> FALSE, message |-> "Invalid signature"], pid |-> Null]
  ELSE [success |-> body.code = "00",
        response |-> [success |-> TRUE, message |-> "Success"], pid |-> <<body.ptx>>]

ServiceCallback(body) ==
  IF body.provider = "ZALOPAY" THEN ServiceZaloCallback(body) ELSE ServicePayosCallback(body)

\* ZalopayGateway.handleCallback of the Lambda: as the service's, and an
\* app_trans_id that does not split into exactly two segments is an error.
LambdaZaloCallback(body) ==
  IF ~body.sigOk
  THEN [success |-> FALSE, response |-> initZaloPayCallbackRes(-1, "Invalid mac"), pid |-> Null]
  ELSE IF body.type # 1
  THEN [success |-> FALSE,
        response |-> initZaloPayCallbackRes(-1, "Unsupported callback type"), pid |-> Null]
  ELSE IF Len(body.ptx) # 2
  THEN [success |-> FALSE,
        response |-> initZaloPayCallbackRes(-1, "Processing error"), pid |-> Null]
  ELSE [success |-> TRUE, response |-> initZaloPayCallbackRes(1, "Success"),
        pid |-> <<body.ptx>>]

\* PayOSGateway.handleCallback of the Lambda.
LambdaPayosCallback(body) ==
  IF ~body.sigOk
  THEN [success |-> FALSE,
        response |-> [error |-> -1, message |-> "Invalid signature or webhook data"],
        pid |-> Null]
  ELSE IF body.code # "00"
  THEN [success |-> FALSE, response |-> [error |-> -1, message |-> "Payment failed"],
        pid |-> <<body.ptx>>]
  ELSE [success |-> TRUE, response |-> [error |-> 0, message |-> "Success"],
        pid |-> <<body.ptx>>]

LambdaCallback(body) ==
  IF body.provider = "ZALOPAY" THEN LambdaZaloCallback(body) ELSE LambdaPayosCallback(body)

\* extractOrderCode: the second '_' segment of a ZaloPay app_trans_id.
extractOrderCode(provider, appTransId) ==
  IF provider = "ZALOPAY"
  THEN (IF Len(appTransId) > 1 THEN <<appTransId[2]>> ELSE appTransId)
  ELSE appTransId

\* ---------------------------------------------------------------- outbox
EventType_PAYMENT_COMPLETED == "PaymentCompleted"
EventType_PAYMENT_FAILED    == "PaymentFailed"
Lambda_PAYMENT_COMPLETED    == "PAYMENT_COMPLETED"

OrElse(v, d) == IF v = Null THEN d ELSE v

\* OutboxService.savePaymentCompletedEvent: the event of an updated row.
savePaymentCompletedEvent(payment, t) ==
  [ aggregateId |-> payment.id, aggregateType |-> "Payment",
    eventType |-> EventType_PAYMENT_COMPLETED,
    payload |-> [ payment_id |-> payment.id, order_code |-> payment.orderCode,
                  transaction_id |-> payment.providerTransactionId,
                  completed_at |-> OrElse(payment.completedAt, At(t)) ] ]

\* OutboxService.savePaymentFailedEvent.
savePaymentFailedEvent(payment, t) ==
  [ aggregateId |-> payment.id, aggregateType |-> "Payment",
    eventType |-> EventType_PAYMENT_FAILED,
    payload |-> [ payment_id |-> payment.id, order_code |-> payment.orderCode,
                  transaction_id |-> payment.providerTransactionId,
                  failed_at |-> OrElse(payment.failedAt, At(t)) ] ]

\* The saveEvent call of cancelPayment.
saveCancelledEvent(payment, t0) ==
  [ aggregateId |-> payment.id, aggregateType |-> "Payment",
    eventType |-> "PaymentCancelled",
    payload |-> [ paymentId |-> payment.id, orderCode |-> payment.orderCode,
                  cancelledAt |-> At(t0) ] ]

\* The outbox.create call of the Lambda handler: from the row as read
\* before the update and the callback's transaction id.
lambdaCompletedEvent(read, pid, t) ==
  [ aggregateId |-> read.id, aggregateType |-> "payment",
    eventType |-> Lambda_PAYMENT_COMPLETED,
    payload |-> [ payment_id |-> read.id, order_code |-> read.orderCode,
                  transaction_id |-> OrElse(pid, <<read.providerTransactionId>>)[1],
                  completed_at |-> OrElse(read.completedAt, At(t)) ] ]

\* OutboxService.saveEvent / tx.outbox.create: the inserted row.
saveEvent(ev, id, t) ==
  [ id |-> id, aggregateId |-> ev.aggregateId, aggregateType |-> ev.aggregateType,
    eventType |-> ev.eventType, payload |-> ev.payload, published |-> FALSE,
    publishedAt |-> Null, retryCount |-> 0, lastError |-> Null, createdAt |-> t ]

\* tx.payment.update({ where, data }): the columns of data overwrite the row's.
UpdateRow(row, data) ==
  [f \in DOMAIN row |-> IF f \in DOMAIN data THEN data[f] ELSE row[f]]

\* -------------------------------------------- lifecycle requests (webhook, cancel)
\* PaymentRepository.findByProviderTransactionId: the row id, or Null.
findByProviderTransactionId(pid) ==
  IF RowsByProviderTx(pid) = {} THEN Null
  ELSE <<CHOOSE i \in RowsByProviderTx(pid) : \A j \in RowsByProviderTx(pid) : i <= j>>

findByOrderCode(o) ==
  IF RowsByOrderCode(o) = {} THEN Null ELSE <<CHOOSE i \in RowsByOrderCode(o) : TRUE>>

\* The requests in flight, and room for one more.
InFlight == BagToSet(req)
Room     == BagCardinality(req) < MaxRequests
Enter(new)      == req (+) SetToBag({new})
Leave(r)        == req (-) SetToBag({r})
Move(r, new)    == (req (-) SetToBag({r})) (+) SetToBag({new})

\* What a handler hands back: the service's return value or exception, the
\* Lambda's HTTP status and body.
Answer(kind, code, body) == [kind |-> kind, code |-> code, body |-> body]

\* The update of handleSuccessPayment / handleFailedPayment.
ServiceData(success, t0) ==
  IF success THEN [status |-> COMPLETED, completedAt |-> At(t0)]
  ELSE [status |-> FAILED, failedAt |-> At(t0)]

\* The columns of the row read that the Lambda handler goes on to use.
ReadColumns(p) ==
  [ id |-> p.id, orderCode |-> p.orderCode, status |-> p.status,
    providerTransactionId |-> p.providerTransactionId, completedAt |-> p.completedAt ]

\* An open transaction with its first statement done: the payment update is
\* pending under the row lock taken at time t.
\* handleSuccessPayment / handleFailedPayment, `now` taken at t0:
ServiceUpdated(target, success, seen, t0, t, response) ==
  [ pc |-> "updated", kind |-> "service", target |-> target, seen |-> seen,
    txStart |-> t, data |-> ServiceData(success, t0),
    event |-> IF success THEN "completed" ELSE "failed", response |-> response ]

\* cancelPayment:
CancelUpdated(target, seen, t) ==
  [ pc |-> "updated", kind |-> "cancel", target |-> target, seen |-> seen,
    txStart |-> t, data |-> [status |-> CANCELLED, cancelledAt |-> At(t)],
    event |-> "cancelled", response |-> "void" ]

\* handleWebhook, from the row as read:
LambdaUpdated(read, pid, t, response) ==
  [ pc |-> "updated", kind |-> "lambda", target |-> read.id, seen |-> read.status,
    txStart |-> t,
    data |-> [status |-> COMPLETED,
              providerTransactionId |-> OrElse(pid, <<read.providerTransactionId>>)[1],
              completedAt |-> At(t)],
    event |-> lambdaCompletedEvent(read, pid, t), response |-> response ]

\* PaymentService.handleCallback when it ends before any transaction: the
\* adapter yields no providerTransactionId and its response is returned, or
\* handleSuccessPayment / handleFailedPayment find no payment and throw.
\* Null when the handler goes on.
ServiceEarly(body) ==
  LET out == ServiceCallback(body) IN
  IF out.pid = Null THEN <<Answer("service", "returned", out.response)>>
  ELSE IF findByProviderTransactionId(out.pid[1]) = Null
  THEN <<Answer("service", "threw", "Payment not found")>>
  ELSE Null

\* PaymentService.handleCallback up to the lookup: `now` is taken, the
\* adapter runs, the payment is looked up.  A request that ends here has
\* touched nothing.
ServiceHandle(body) ==
  /\ Room
  /\ LET out == ServiceCallback(body) IN
     IF ServiceEarly(body) # Null
     THEN UNCHANGED req
     ELSE LET existing == findByProviderTransactionId(out.pid[1]) IN
          req' = Enter(
                   [pc |-> "found", kind |-> "service", success |-> out.success,
                    orderCode |-> payments[existing[1]].orderCode,
                    seen |-> payments[existing[1]].status,
                    t0 |-> now, response |-> out.response])
  /\ UNCHANGED <<payments, outbox, outboxSeq, bus, now, links, intent, rowLock,
                 pub, proc, faults, publisher, sent>>

\* A provider's callback reaches the service.
ServiceReceive == \E body \in Bodies : ServiceHandle(body)

\* First statement of the service's transaction:
\* tx.payment.update({ where: { orderCode }, data }).  The update takes the
\* row lock and stays invisible to others until commit.
ServiceTxUpdate(r) ==
  /\ r.pc = "found"
  /\ LET hit == findByOrderCode(r.orderCode) IN
     /\ hit # Null
     /\ hit[1] \notin rowLock
     /\ rowLock' = rowLock \cup {hit[1]}
     /\ req' = Move(r, ServiceUpdated(hit[1], r.success, r.seen, r.t0, now, r.response))
  /\ UNCHANGED <<payments, outbox, outboxSeq, bus, now, links, intent,
                 pub, proc, faults, publisher, sent>>

\* PaymentService.cancelPayment, first statement of its transaction; an
\* update that matches no row throws and nothing is touched.
CancelEarly(o) ==
  IF findByOrderCode(o) = Null THEN <<Answer("cancel", "threw", "Record not found")>>
  ELSE Null

CancelTxUpdate ==
  /\ Room
  /\ \E o \in OrderCodes :
       LET hit == findByOrderCode(o) IN
       IF CancelEarly(o) # Null
       THEN UNCHANGED <<req, rowLock>>
       ELSE /\ hit[1] \notin rowLock
            /\ rowLock' = rowLock \cup {hit[1]}
            /\ req' = Enter(CancelUpdated(hit[1], payments[hit[1]].status, now))
  /\ UNCHANGED <<payments, outbox, outboxSeq, bus, now, links, intent,
                 pub, proc, faults, publisher, sent>>

\* The order code handleWebhook resolves: PayOS by findFirst on
\* providerTransactionId, ZaloPay by extractOrderCode.  Null if PayOS finds
\* no payment.
ResolveOrderCode(provider, pid) ==
  IF provider = "PAYOS"
  THEN (IF findByProviderTransactionId(pid) = Null THEN Null
        ELSE <<payments[findByProviderTransactionId(pid)[1]].orderCode>>)
  ELSE <<extractOrderCode(provider, pid)>>

\* A handleWebhook that acknowledges a callback that resolves to no payment.
LambdaEarly_AcknowledgesUnknown(body) ==
  LET out == LambdaCallback(body) IN
  IF ~out.success THEN <<Answer("lambda", 200, out.response)>>
  ELSE LET orderCode == ResolveOrderCode(body.provider, out.pid[1]) IN
       IF orderCode = Null THEN <<Answer("lambda", 200, out.response)>>
       ELSE IF findByOrderCode(orderCode[1]) = Null
       THEN <<Answer("lambda", 200, out.response)>>
       ELSE IF payments[findByOrderCode(orderCode[1])[1]].status = COMPLETED
       THEN <<Answer("lambda", 200, out.response)>>
       ELSE Null

\* handleWebhook when it ends without writing: a failed callback is
\* answered 200 with the adapter's response; an order code that resolves to
\* no payment is a ValidationError (400); a payment read as COMPLETED is
\* left alone (200).  Null when the handler goes on to write.
LambdaEarly(body) ==
  LET out == LambdaCallback(body) IN
  IF ~out.success THEN <<Answer("lambda", 200, out.response)>>
  ELSE LET orderCode == ResolveOrderCode(body.provider, out.pid[1]) IN
       IF orderCode = Null THEN <<Answer("lambda", 400, "ValidationError")>>
       ELSE IF findByOrderCode(orderCode[1]) = Null
       THEN <<Answer("lambda", 400, "ValidationError")>>
       ELSE IF payments[findByOrderCode(orderCode[1])[1]].status = COMPLETED
       THEN <<Answer("lambda", 200, out.response)>>
       ELSE Null

\* handleWebhook before the adapter runs: a request without a body is a
\* ValidationError (400); a body that is no JSON makes JSON.parse throw,
\* which handleError answers with 500.
Unparsed == {"no body", "not JSON"}
LambdaUnparsed(raw) ==
  IF raw = "no body" THEN Answer("lambda", 400, "ValidationError")
  ELSE Answer("lambda", 500, "SyntaxError")

\* String.prototype.includes
Includes(s, sub) ==
  \E i \in 1..(Len(s) - Len(sub) + 1) : SubSeq(s, i, i + Len(sub) - 1) = sub

\* Requests as detectProvider sees them: the path and the fields of the
\* parsed body that are present and truthy.
Paths  == {"/webhook/zalopay", "/webhook/payos", "/webhook"}
Fields == {{"data", "mac", "type"}, {"code", "desc", "data", "signature"},
           {"data", "mac"}, {"unknown"}}

\* detectProvider: by path, then by the fields of the body; Null when it
\* throws ValidationError.
detectProvider(path, fields) ==
  IF Includes(path, "/zalopay") \/ Includes(path, "/zalo-pay") THEN <<"ZALOPAY">>
  ELSE IF Includes(path, "/payos") \/ Includes(path, "/pay-os") THEN <<"PAYOS">>
  ELSE IF {"data", "mac", "type"} \subseteq fields THEN <<"ZALOPAY">>
  ELSE IF {"code", "desc", "data", "signature"} \subseteq fields THEN <<"PAYOS">>
  ELSE Null

\* handleWebhook when detectProvider throws: handleError answers the
\* ValidationError with 400.  Null when the handler goes on to the adapter.
LambdaUndetected(path, fields) ==
  IF detectProvider(path, fields) = Null
  THEN <<Answer("lambda", 400, "ValidationError")>>
  ELSE Null

\* handleWebhook up to the first read of its transaction: the adapter, the
\* resolution of the order code, and findUnique by order code, a plain read
\* of the committed row.  The resolution reads the order code only, which
\* no operation changes, so it is taken in the same step as the read.
LambdaHandle(body) ==
  /\ Room
  /\ LET out == LambdaCallback(body) IN
     IF LambdaEarly(body) # Null
     THEN UNCHANGED req
     ELSE LET hit == findByOrderCode(ResolveOrderCode(body.provider, out.pid[1])[1]) IN
          req' = Enter(
                   [pc |-> "read", kind |-> "lambda", pid |-> out.pid,
                    read |-> ReadColumns(payments[hit[1]]),
                    response |-> out.response])
  /\ UNCHANGED <<payments, outbox, outboxSeq, bus, now, links, intent, rowLock,
                 pub, proc, faults, publisher, sent>>

\* A provider's callback reaches the Lambda function.
LambdaReceive == \E body \in Bodies : LambdaHandle(body)

\* tx.payment.update({ where: { id }, data }) of handleWebhook.
LambdaTxUpdate(r) ==
  /\ r.pc = "read"
  /\ r.read.id \notin rowLock
  /\ rowLock' = rowLock \cup {r.read.id}
  /\ req' = Move(r, LambdaUpdated(r.read, r.pid, now, r.response))
  /\ UNCHANGED <<payments, outbox, outboxSeq, bus, now, links, intent,
                 pub, proc, faults, publisher, sent>>

\* The event the open transaction r appends, committing at time t.
EventOf(r, updated, t) ==
  IF r.kind = "lambda" THEN r.event
  ELSE IF r.event = "completed" THEN savePaymentCompletedEvent(updated, t)
  ELSE IF r.event = "failed" THEN savePaymentFailedEvent(updated, t)
  ELSE saveCancelledEvent(updated, r.data.cancelledAt[1])

\* The tables as the commit of transaction r at time t leaves them: the
\* update and the new outbox row become visible together.
Committed(tables, r, t) ==
  LET updated == UpdateRow(tables.payments[r.target], r.data) IN
  [ payments  |-> [tables.payments EXCEPT ![r.target] = updated],
    outbox    |-> Append(tables.outbox,
                         saveEvent(EventOf(r, updated, t), tables.outboxSeq + 1, r.txStart)),
    outboxSeq |-> tables.outboxSeq + 1 ]

Tables == [payments |-> payments, outbox |-> outbox, outboxSeq |-> outboxSeq]

\* Commit: the outbox insert succeeded; the row lock is released.
CommitTx(r) ==
  LET after == Committed(Tables, r, now) IN
  /\ payments' = after.payments
  /\ outbox' = after.outbox
  /\ outboxSeq' = after.outboxSeq
  /\ rowLock' = rowLock \ {r.target}

\* A rollback that lets the payment update through.
RollbackTx_KeepsUpdate(r) ==
  /\ rowLock' = rowLock \ {r.target}
  /\ payments' = [payments EXCEPT ![r.target] = UpdateRow(payments[r.target], r.data)]
  /\ UNCHANGED <<outbox, outboxSeq>>

\* Rollback: nothing of the transaction becomes visible.
RollbackTx(r) ==
  /\ rowLock' = rowLock \ {r.target}
  /\ UNCHANGED <<payments, outbox, outboxSeq>>

\* The transaction callback ran to its end and the handler answers.
TxCommit(r) ==
  /\ r.pc = "updated"
  /\ Len(outbox) < MaxOutbox
  /\ CommitTx(r)
  /\ sent' = Answer(r.kind, IF r.kind = "lambda" THEN 200 ELSE "returned",
                    r.response)
  /\ req' = Leave(r)
  /\ UNCHANGED <<bus, now, links, intent, pub, proc, faults, publisher>>

\* An exception inside the transaction callback (the outbox insert fails,
\* the statement times out): the transaction is rolled back and the error
\* reaches the caller (the Lambda answers 500).
TxAbort(r) ==
  /\ r.pc = "updated"
  /\ RollbackTx(r)
  /\ sent' = Answer(r.kind, IF r.kind = "lambda" THEN 500 ELSE "threw",
                    "Transaction failed")
  /\ req' = Leave(r)
  /\ UNCHANGED <<bus, now, links, intent, pub, proc, faults, publisher>>

NoAnswer == Answer("none", 0, "none")
IdlePub  == [isProcessing |-> FALSE, isShuttingDown |-> FALSE, batch |-> << >>, at |-> << >>,
             destroy |-> "none", producer |-> "connected"]
IdleProc == [pc |-> "idle"]

\* State after construction: empty tables, nothing in flight.
InitEmpty ==
  /\ payments = << >>
  /\ outbox = << >>
  /\ outboxSeq = 0
  /\ bus = << >>
  /\ now = 0
  /\ links = 0
  /\ intent = [c \in Calls |-> IdleIntent]
  /\ req = EmptyBag
  /\ rowLock = {}
  /\ pub = IdlePub
  /\ proc = IdleProc
  /\ faults = 0
  /\ publisher = "service"
  /\ sent = NoAnswer

\* ======================================================================
\* C1  Idempotent creation.  At most one payments row carries a given
\* idempotency key, and every finished createPaymentIntent call whose key,
\* order code and provider are those of the stored row returned that row's
\* paymentUrl (a call that lost the insert race included); only a provider
\* failure excuses a call.
SameFields(c, i) ==
  /\ payments[i].idempotencyKey = intent[c].dto.idempotencyKey
  /\ payments[i].orderCode = intent[c].dto.orderCode
  /\ payments[i].provider = intent[c].dto.provider

C1_IdempotentCreation ==
  /\ \A k \in Keys : Cardinality(RowsByIdempotencyKey(k)) <= 1
  /\ \A c \in Calls : \A i \in Ids(payments) :
       (intent[c].pc = "done" /\ SameFields(c, i) /\ intent[c].error # "ProviderError")
         => (intent[c].outcome = "returned" /\ intent[c].url = payments[i].paymentUrl)

\* ErrorCodeEnum and the messages of ErrorCode.
ErrorCodeEnum_PermissionDenied == 20403
ErrorCodeEnum_PaymentNotFound  == 20000
ErrorCode(code) ==
  IF code = ErrorCodeEnum_PermissionDenied THEN "Permission denied" ELSE "Payment not found"

\* gRPC status codes.
grpcStatus_OK               == 0
grpcStatus_INVALID_ARGUMENT == 3

\* RpcBusinessException: gRPC status INVALID_ARGUMENT, message
\* `${code} - ${message}`.
RpcBusinessException(code) ==
  [code |-> grpcStatus_INVALID_ARGUMENT,
   message |-> ToString(code) \o " - " \o ErrorCode(code)]

\* PaymentService.findByIdempotencyKey: the entity, or the exception thrown
\* when the repository finds none.
PaymentService_findByIdempotencyKey(k) ==
  IF findByIdempotencyKey(k) = Null
  THEN Answer("grpc", RpcBusinessException(ErrorCodeEnum_PermissionDenied).code,
              RpcBusinessException(ErrorCodeEnum_PermissionDenied))
  ELSE Answer("grpc", grpcStatus_OK, findByIdempotencyKey(k)[1])

\* The values of the proto enum PaymentStatus.
ProtoStatus_PENDING   == 0
ProtoStatus_COMPLETED == 1
ProtoStatus_FAILED    == 2

\* PaymentStatusMapper.prismaToProtoMap.get: Null for a status without entry.
prismaToProtoMap(status) ==
  IF status = PENDING THEN <<ProtoStatus_PENDING>>
  ELSE IF status = COMPLETED THEN <<ProtoStatus_COMPLETED>>
  ELSE IF status = FAILED THEN <<ProtoStatus_FAILED>>
  ELSE Null

\* `!protoStatus` of JavaScript: undefined and the number 0 are falsy.
Falsy(value) == value = Null \/ value = <<0>>

\* PaymentStatusMapper.toProto: the proto value, or Null when it throws
\* Error('Unknown Prisma PaymentStatus: ...').
toProto(prismaStatus) ==
  IF Falsy(prismaToProtoMap(prismaStatus)) THEN Null ELSE prismaToProtoMap(prismaStatus)

\* An exception that is no RpcException reaches the caller as gRPC status
\* UNKNOWN.
grpcStatus_UNKNOWN == 2
InternalError == [code |-> grpcStatus_UNKNOWN, message |-> "Internal server error"]

\* GrpcPaymentController.getPaymentUrlByIdempotencyKey: the exception of the
\* service goes to the caller; on a hit the response carries the entity's
\* paymentUrl and its status through PaymentStatusMapper.toProto, whose
\* exception goes to the caller as well.  A read only.
getPaymentUrlByIdempotencyKey(k) ==
  /\ LET found == PaymentService_findByIdempotencyKey(k) IN
     sent' = IF found.code # grpcStatus_OK THEN found
             ELSE IF toProto(found.body.status) = Null
             THEN Answer("grpc", InternalError.code, InternalError)
             ELSE Answer("grpc", grpcStatus_OK,
                         [paymentUrl |-> PaymentUrlOf(found.body),
                          status |-> toProto(found.body.status)[1]])
  /\ UNCHANGED <<payments, outbox, outboxSeq, bus, now, links, intent, req, rowLock,
                 pub, proc, faults, publisher>>

NextIntent ==
  \/ \E c \in Calls : IntentLookup(c)
  \/ \E c \in Calls : IntentCreateLink(c)
  \/ \E c \in Calls : IntentInsert(c)
  \/ \E k \in Keys : getPaymentUrlByIdempotencyKey(k)
  \/ AdvanceClock

SpecIntent == InitEmpty /\ [][NextIntent]_vars

\* One PENDING payment as a createPaymentIntent call at time 0 leaves it,
\* through ZaloPay (n = 1) or through PayOS (n = 2).
SeedDto(n) ==
  LET k == IF n = 1 THEN "k1" ELSE "k2"
      o == IF n = 1 THEN <<"o1">> ELSE <<"o2">>
      p == IF n = 1 THEN "ZALOPAY" ELSE "PAYOS"
      out == createPaymentLink(p, o, 0, 1)
  IN [idempotencyKey |-> k, orderCode |-> o, provider |-> p,
      transactionId |-> out.transactionId, paymentUrl |-> out.url]

SeededPayments == {<<NewPayment(1, SeedDto(n))>> : n \in {1, 2}}

InitLifecycle ==
  /\ payments \in SeededPayments
  /\ outbox = << >>
  /\ outboxSeq = 0
  /\ bus = << >>
  /\ now = 0
  /\ links = 1
  /\ intent = [c \in Calls |-> IdleIntent]
  /\ req = EmptyBag
  /\ rowLock = {}
  /\ pub = IdlePub
  /\ proc = IdleProc
  /\ faults = 0
  /\ publisher = "service"
  /\ sent = NoAnswer

NextLifecycle ==
  \/ ServiceReceive
  \/ \E r \in InFlight : ServiceTxUpdate(r)
  \/ CancelTxUpdate
  \/ LambdaReceive
  \/ \E r \in InFlight : LambdaTxUpdate(r)
  \/ \E r \in InFlight : TxCommit(r)
  \/ \E r \in InFlight : TxAbort(r)
  \/ AdvanceClock

SpecLifecycle == InitLifecycle /\ [][NextLifecycle]_vars

\* ======================================================================
\* C2  Monotone status.  A status only ever changes from PENDING to
\* COMPLETED, FAILED or CANCELLED: no step changes the status of a row that
\* is COMPLETED, FAILED or CANCELLED.
C2_TerminalStatusFinal ==
  [][\A i \in Ids(payments) :
       payments'[i].status # payments[i].status
         => (payments[i].status = PENDING /\ payments'[i].status \in Terminal)]_vars

\* ======================================================================
\* C3  Atomic event emission.  A PENDING payment has no outbox row; a
\* payment in a terminal status has exactly one outbox row with its id as
\* aggregateId, that row's eventType is the one of the status, and the row
\* was created with published = false and retryCount = 0.
EventRows(i) == {j \in Ids(outbox) : outbox[j].aggregateId = payments[i].id}

EventTypesOf(status) ==
  IF status = COMPLETED THEN {EventType_PAYMENT_COMPLETED, Lambda_PAYMENT_COMPLETED}
  ELSE IF status = FAILED THEN {EventType_PAYMENT_FAILED}
  ELSE IF status = CANCELLED THEN {"PaymentCancelled"}
  ELSE {}

C3_OneRowPerTransition ==
  \A i \in Ids(payments) :
    /\ payments[i].status = PENDING => EventRows(i) = {}
    /\ payments[i].status \in Terminal =>
         \E j \in EventRows(i) :
           /\ EventRows(i) = {j}
           /\ outbox[j].eventType \in EventTypesOf(payments[i].status)
           /\ ~outbox[j].published
           /\ outbox[j].retryCount = 0

\* ======================================================================
\* C4  Concurrent webhooks.  Of the webhooks that looked a payment up while
\* it was PENDING only one writes: a webhook that holds the row lock with its
\* update pending, having seen PENDING at its lookup, does not find that
\* another webhook has completed or failed the payment in between.
C4_OneWinner ==
  \A r \in InFlight :
    (r.pc = "updated" /\ r.kind # "cancel" /\ r.seen = PENDING)
      => payments[r.target].status \notin {COMPLETED, FAILED}

\* ======================================================================
\* C5  Failure atomicity.  A step in which a request's transaction fails
\* (the request leaves with an error answer) changes neither table.
Failed(a) == IF a.kind = "lambda" THEN a.code = 500 ELSE a.code = "threw"

C5_FailedTransactionChangesNothing ==
  [][(BagCardinality(req') < BagCardinality(req) /\ Failed(sent'))
       => (payments' = payments /\ outbox' = outbox)]_vars

\* A transaction has failed on a payment that an earlier transaction had
\* completed: the row and its single outbox row are still there.
C5_Witness ==
  /\ sent.kind # "none"
  /\ Failed(sent)
  /\ Len(outbox) = 1
  /\ payments[1].status = COMPLETED
  /\ payments[1].completedAt # Null

\* ------------------------------------------------------ outbox publishing
\* Rows of the outbox table by id.
RowIds == {outbox[j].id : j \in Ids(outbox)}
RowAt(id) == CHOOSE j \in Ids(outbox) : outbox[j].id = id

\* prisma.outbox.update({ where: { id }, data }) on the table; a missing
\* row makes the call throw and nothing is written.
UpdateOutbox(id, data) ==
  IF id \in RowIds
  THEN [outbox EXCEPT ![RowAt(id)] = UpdateRow(outbox[RowAt(id)], data)]
  ELSE outbox

\* A markAsPublished that leaves publishedAt alone.
markAsPublished_NoTimestamp(id, t) == UpdateOutbox(id, [published |-> TRUE])

\* A markAsPublished that also clears the retry bookkeeping.
markAsPublished_ClearsRetries(id, t) ==
  UpdateOutbox(id, [published |-> TRUE, publishedAt |-> At(t), retryCount |-> 0])

\* A markAsPublished that also restamps the row.
markAsPublished_Restamps(id, t) ==
  UpdateOutbox(id, [published |-> TRUE, publishedAt |-> At(t), createdAt |-> t + 1])

\* OutboxService.markAsPublished
markAsPublished(id, t) == UpdateOutbox(id, [published |-> TRUE, publishedAt |-> At(t)])

\* An incrementRetryCount that records the row as published.
incrementRetryCount_Marks(id, error) ==
  UpdateOutbox(id, [published |-> TRUE, publishedAt |-> At(now)])

\* OutboxService.incrementRetryCount
incrementRetryCount(id, error) ==
  IF id \in RowIds
  THEN UpdateOutbox(id, [retryCount |-> outbox[RowAt(id)].retryCount + 1,
                         lastError |-> <<error>>])
  ELSE outbox

\* updateOutboxEvent of the Lambda processor: success sets publishedAt,
\* failure counts a retry.
updateOutboxEvent(id, success, t) ==
  IF success THEN UpdateOutbox(id, [publishedAt |-> At(t)])
  ELSE IF id \in RowIds
  THEN UpdateOutbox(id, [retryCount |-> outbox[RowAt(id)].retryCount + 1,
                         lastError |-> <<"Failed to publish to Kafka">>])
  ELSE outbox

\* The orders in which a findMany with orderBy createdAt asc may return the
\* rows at positions S: rows of equal createdAt come in either order.
ByCreatedAt(S) ==
  {s \in [1..Cardinality(S) -> S] :
     /\ \A a, b \in 1..Cardinality(S) : a # b => s[a] # s[b]
     /\ \A a, b \in 1..Cardinality(S) :
          a < b => outbox[s[a]].createdAt <= outbox[s[b]].createdAt}

Take(s, n) == IF Len(s) <= n THEN s ELSE SubSeq(s, 1, n)

\* The fields of a fetched row that publishing uses.
Fetched(row) ==
  [ id |-> row.id, aggregateId |-> row.aggregateId, aggregateType |-> row.aggregateType,
    eventType |-> row.eventType, payload |-> row.payload ]

\* A getUnpublishedEvents whose where clause has no retryCount condition.
getUnpublishedEvents_AnyRetryCount(limit, maxRetries) ==
  LET S == {j \in Ids(outbox) : ~outbox[j].published}
  IN {[k \in 1..Len(Take(s, limit)) |-> Fetched(outbox[s[k]])] : s \in ByCreatedAt(S)}

\* OutboxService.getUnpublishedEvents: the possible results.
getUnpublishedEvents(limit, maxRetries) ==
  LET S == {j \in Ids(outbox) : ~outbox[j].published /\ outbox[j].retryCount < maxRetries}
  IN {[k \in 1..Len(Take(s, limit)) |-> Fetched(outbox[s[k]])] : s \in ByCreatedAt(S)}

\* The findMany of processOutbox: publishedAt null and retries left.
pendingEvents(limit, maxRetries) ==
  LET S == {j \in Ids(outbox) :
              outbox[j].publishedAt = Null /\ outbox[j].retryCount < maxRetries}
  IN {[k \in 1..Len(Take(s, limit)) |-> Fetched(outbox[s[k]])] : s \in ByCreatedAt(S)}

\* OutboxService.getFailedEvents: ids of the unpublished rows out of retries.
getFailedEvents(maxRetries) ==
  {outbox[j].id : j \in {i \in Ids(outbox) :
                           ~outbox[i].published /\ outbox[i].retryCount >= maxRetries}}

\* findFailedEvents of the Lambda cleanup handler.
findFailedEvents(maxRetries) ==
  {outbox[j].id : j \in {i \in Ids(outbox) :
                           outbox[i].publishedAt = Null /\ outbox[i].retryCount >= maxRetries}}

\* OutboxPublisherService.getTopicForEventType: Null for an unmapped type.
getTopicForEventType(eventType) ==
  IF eventType = EventType_PAYMENT_COMPLETED THEN <<"payment.completed">>
  ELSE IF eventType = EventType_PAYMENT_FAILED THEN <<"payment.failed">>
  ELSE Null

\* getTopicForEventType of the Lambda processor: unknown types go to the
\* payment.failed topic.
lambdaTopicForEventType(eventType) ==
  IF eventType = Lambda_PAYMENT_COMPLETED THEN "payment.completed"
  ELSE IF eventType = "PAYMENT_FAILED" THEN "payment.failed"
  ELSE IF eventType = "PAYMENT_CANCELLED" THEN "payment.cancelled"
  ELSE "payment.failed"

\* The message the bus stores for a fetched row once it has acknowledged it.
Message(topic, event) ==
  [ topic |-> topic, key |-> event.aggregateId, eventType |-> event.eventType,
    rowId |-> event.id, value |-> event.payload ]

MaxRetriesOf(p) == IF p = "service" THEN MAX_RETRIES ELSE LAMBDA_MAX_RETRIES

\* A processOutboxEvents that looks at isShuttingDown only.
processOutboxEvents_NoGuard ==
  /\ publisher = "service"
  /\ IF pub.isShuttingDown THEN UNCHANGED pub
     ELSE \E events \in getUnpublishedEvents(BATCH_SIZE, MAX_RETRIES) :
            IF Len(events) = 0 THEN UNCHANGED pub
            ELSE pub' = [pub EXCEPT !.isProcessing = TRUE, !.batch = events,
                                    !.at = [k \in 1..Len(events) |-> "pending"]]
  /\ UNCHANGED <<payments, outbox, outboxSeq, bus, now, links, intent, req, rowLock,
                 proc, faults, publisher, sent>>

\* processOutboxEvents up to the fan-out: with one of the two flags set the
\* call returns at once; otherwise isProcessing is set and the batch is
\* fetched.  With an empty batch the finally block clears the flag again at
\* once.
processOutboxEvents ==
  /\ publisher = "service"
  /\ IF pub.isProcessing \/ pub.isShuttingDown THEN UNCHANGED pub
     ELSE \E events \in getUnpublishedEvents(BATCH_SIZE, MAX_RETRIES) :
            IF Len(events) = 0 THEN UNCHANGED pub
            ELSE pub' = [pub EXCEPT !.isProcessing = TRUE, !.batch = events,
                                    !.at = [k \in 1..Len(events) |-> "pending"]]
  /\ UNCHANGED <<payments, outbox, outboxSeq, bus, now, links, intent, req, rowLock,
                 proc, faults, publisher, sent>>

\* The scheduled call, every five seconds.
Tick == processOutboxEvents

\* triggerManualProcessing: the same call, made by hand.
TriggerManualProcessing == processOutboxEvents

\* publishEvent(batch[k]) up to the end of kafkaProducer.publish.  The
\* events of a batch are published concurrently (Promise.allSettled), so k
\* is any event still pending.  No topic: incrementRetryCount and return.
\* The broker acknowledges: the message is on the bus.  The publish throws
\* (always so once the producer is disconnected): the catch block counts a
\* retry and the promise rejects.
PublishSend(k) ==
  /\ pub.isProcessing
  /\ pub.at[k] = "pending"
  /\ LET event == pub.batch[k]
         topic == getTopicForEventType(event.eventType)
     IN IF topic = Null
        THEN /\ outbox' = incrementRetryCount(event.id,
                                                 "Unknown event type: " \o event.eventType)
             /\ pub' = [pub EXCEPT !.at[k] = "done"]
             /\ UNCHANGED <<bus, faults>>
        ELSE \/ /\ pub.producer = "connected"
                /\ bus' = Append(bus, Message(topic[1], event))
                /\ pub' = [pub EXCEPT !.at[k] = "sent"]
                /\ UNCHANGED <<outbox, faults>>
             \/ /\ IF pub.producer = "connected"
                   THEN faults < MaxFaults /\ faults' = faults + 1
                   ELSE UNCHANGED faults
                /\ outbox' = incrementRetryCount(event.id, "publish failed")
                /\ pub' = [pub EXCEPT !.at[k] = "done"]
                /\ UNCHANGED bus
  /\ UNCHANGED <<payments, outboxSeq, now, links, intent, req, rowLock,
                 proc, publisher, sent>>

\* publishEvent(batch[k]) after the acknowledgement: markAsPublished, or
\* markAsPublished throws and the catch block counts a retry.
PublishMark(k) ==
  /\ pub.isProcessing
  /\ pub.at[k] = "sent"
  /\ \/ /\ outbox' = markAsPublished(pub.batch[k].id, now)
        /\ UNCHANGED faults
     \/ /\ faults < MaxFaults
        /\ faults' = faults + 1
        /\ outbox' = incrementRetryCount(pub.batch[k].id, "mark failed")
  /\ pub' = [pub EXCEPT !.at[k] = "done"]
  /\ UNCHANGED <<payments, outboxSeq, bus, now, links, intent, req, rowLock,
                 proc, publisher, sent>>

\* All promises settled: the finally block clears isProcessing.
TickEnd ==
  /\ pub.isProcessing
  /\ \A k \in 1..Len(pub.batch) : pub.at[k] = "done"
  /\ pub' = [pub EXCEPT !.isProcessing = FALSE, !.batch = << >>, !.at = << >>]
  /\ UNCHANGED <<payments, outbox, outboxSeq, bus, now, links, intent, req, rowLock,
                 proc, faults, publisher, sent>>

\* processOutbox up to the loop: the pending rows are fetched; none: the
\* run returns zero counts.
ProcStart ==
  /\ publisher = "lambda"
  /\ proc.pc = "idle"
  /\ \E events \in pendingEvents(LAMBDA_BATCH_SIZE, LAMBDA_MAX_RETRIES) :
       IF Len(events) = 0 THEN UNCHANGED proc
       ELSE proc' = [pc |-> "publish", batch |-> events, i |-> 1,
                     succeeded |-> 0, failed |-> 0]
  /\ UNCHANGED <<payments, outbox, outboxSeq, bus, now, links, intent, req, rowLock,
                 pub, faults, publisher, sent>>

\* processOutboxEvent(batch[i]): publishWithRetry gets the message
\* acknowledged, or gives up after its attempts.
ProcPublish ==
  /\ proc.pc = "publish"
  /\ LET event == proc.batch[proc.i] IN
     \/ /\ bus' = Append(bus, Message(lambdaTopicForEventType(event.eventType), event))
        /\ proc' = [pc |-> "update", batch |-> proc.batch, i |-> proc.i, success |-> TRUE,
                    succeeded |-> proc.succeeded, failed |-> proc.failed]
        /\ UNCHANGED faults
     \/ /\ faults < MaxFaults
        /\ faults' = faults + 1
        /\ proc' = [pc |-> "update", batch |-> proc.batch, i |-> proc.i, success |-> FALSE,
                    succeeded |-> proc.succeeded, failed |-> proc.failed]
        /\ UNCHANGED bus
  /\ UNCHANGED <<payments, outbox, outboxSeq, now, links, intent, req, rowLock,
                 pub, publisher, sent>>

\* A loop body that counts by the outcome of the publish alone: an update
\* that throws after a successful publish is counted as succeeded.
ProcUpdate_CountsPublishOnly ==
  /\ proc.pc = "update"
  /\ \E updated \in BOOLEAN :
       LET succeeded == IF proc.success THEN proc.succeeded + 1 ELSE proc.succeeded
           failed == IF proc.success THEN proc.failed ELSE proc.failed + 1
       IN
       /\ IF updated
          THEN /\ outbox' = updateOutboxEvent(proc.batch[proc.i].id, proc.success, now)
               /\ UNCHANGED faults
          ELSE /\ faults < MaxFaults
               /\ faults' = faults + 1
               /\ UNCHANGED outbox
       /\ IF proc.i < Len(proc.batch)
          THEN /\ proc' = [pc |-> "publish", batch |-> proc.batch, i |-> proc.i + 1,
                           succeeded |-> succeeded, failed |-> failed]
               /\ UNCHANGED sent
          ELSE /\ proc' = IdleProc
               /\ sent' = Answer("processor", 200,
                                 [processed |-> Len(proc.batch), succeeded |-> succeeded,
                                  failed |-> failed])
  /\ UNCHANGED <<payments, outboxSeq, bus, now, links, intent, req, rowLock,
                 pub, publisher>>

\* The rest of the loop body: updateOutboxEvent and the counters; an update
\* that throws is counted as failed.  After the last event the run returns
\* its counts.
ProcUpdate ==
  /\ proc.pc = "update"
  /\ \E updated \in BOOLEAN :
       LET succeeded == IF updated /\ proc.success THEN proc.succeeded + 1
                        ELSE proc.succeeded
           failed == IF updated /\ proc.success THEN proc.failed ELSE proc.failed + 1
       IN
       /\ IF updated
          THEN /\ outbox' = updateOutboxEvent(proc.batch[proc.i].id, proc.success, now)
               /\ UNCHANGED faults
          ELSE /\ faults < MaxFaults
               /\ faults' = faults + 1
               /\ UNCHANGED outbox
       /\ IF proc.i < Len(proc.batch)
          THEN /\ proc' = [pc |-> "publish", batch |-> proc.batch, i |-> proc.i + 1,
                           succeeded |-> succeeded, failed |-> failed]
               /\ UNCHANGED sent
          ELSE /\ proc' = IdleProc
               /\ sent' = Answer("processor", 200,
                                 [processed |-> Len(proc.batch), succeeded |-> succeeded,
                                  failed |-> failed])
  /\ UNCHANGED <<payments, outboxSeq, bus, now, links, intent, req, rowLock,
                 pub, publisher>>

\* The publisher's process dies and a new one starts: whatever was in
\* flight is lost, the flags are those of a fresh instance.
Restart ==
  /\ pub.isProcessing \/ proc.pc # "idle"
  /\ faults < MaxFaults
  /\ faults' = faults + 1
  /\ pub' = IdlePub
  /\ proc' = IdleProc
  /\ UNCHANGED <<payments, outbox, outboxSeq, bus, now, links, intent, req, rowLock,
                 publisher, sent>>

\* The tables after a history of committed transitions of payment 1, one
\* per entry of h, the k-th at time ts[k].
RECURSIVE After(_, _, _)
After(tables, h, ts) ==
  IF h = << >> THEN tables
  ELSE LET p == tables.payments[1]
           r == IF Head(h) = "completed"
                THEN ServiceUpdated(1, TRUE, p.status, Head(ts), Head(ts), "void")
                ELSE IF Head(h) = "failed"
                THEN ServiceUpdated(1, FALSE, p.status, Head(ts), Head(ts), "void")
                ELSE IF Head(h) = "cancelled"
                THEN CancelUpdated(1, p.status, Head(ts))
                ELSE LambdaUpdated(ReadColumns(p), <<p.providerTransactionId>>,
                                   Head(ts), "void")
       IN After(Committed(tables, r, Head(ts)), Tail(h), Tail(ts))

\* Histories the lifecycle handlers can produce: webhooks through the
\* service or through the Lambda handler (which leaves a COMPLETED payment
\* alone), cancel calls in between.
RECURSIVE Possible(_, _)
Possible(tables, h) ==
  IF h = << >> THEN TRUE
  ELSE /\ Head(h) = "lambda" => tables.payments[1].status # COMPLETED
       /\ Possible(After(tables, <<Head(h)>>, <<0>>), Tail(h))

Kinds(p) == IF p = "service" THEN {"completed", "failed", "cancelled"}
            ELSE {"lambda", "cancelled"}

Stamps(n) == {ts \in [1..n -> 0..MaxTime] : \A a, b \in 1..n : a < b => ts[a] <= ts[b]}

InitOutbox ==
  /\ publisher \in {"service", "lambda"}
  /\ \E seed \in SeededPayments : \E n \in 1..MaxOutbox :
     \E h \in [1..n -> Kinds(publisher)] : \E ts \in Stamps(n) :
       LET start == [payments |-> seed, outbox |-> << >>, outboxSeq |-> 0]
           tables == After(start, h, ts)
       IN /\ Possible(start, h)
          /\ payments = tables.payments
          /\ outbox = tables.outbox
          /\ outboxSeq = tables.outboxSeq
          /\ now = ts[n]
  /\ bus = << >>
  /\ links = 1
  /\ intent = [c \in Calls |-> IdleIntent]
  /\ req = EmptyBag
  /\ rowLock = {}
  /\ pub = IdlePub
  /\ proc = IdleProc
  /\ faults = 0
  /\ sent = NoAnswer

NextOutbox ==
  \/ Tick
  \/ \E k \in DOMAIN pub.at : PublishSend(k)
  \/ \E k \in DOMAIN pub.at : PublishMark(k)
  \/ TickEnd
  \/ ProcStart
  \/ ProcPublish
  \/ ProcUpdate
  \/ Restart
  \/ AdvanceClock

SpecOutbox == InitOutbox /\ [][NextOutbox]_vars

\* The publisher's steps are taken as long as they can be: ticks keep
\* occurring and a started tick or run goes on.  Faults are bounded, so the
\* bus and the store accept in the end.
SpecOutboxFair ==
  /\ SpecOutbox
  /\ WF_vars(Tick)
  /\ WF_vars(\E k \in DOMAIN pub.at : PublishSend(k))
  /\ WF_vars(\E k \in DOMAIN pub.at : PublishMark(k))
  /\ WF_vars(TickEnd)
  /\ WF_vars(ProcStart)
  /\ WF_vars(ProcPublish)
  /\ WF_vars(ProcUpdate)

\* Positions of the bus log.
OnBus(id) == \E m \in Ids(bus) : bus[m].rowId = id

CompletedTypes == {EventType_PAYMENT_COMPLETED, Lambda_PAYMENT_COMPLETED}
FailedTypes    == {EventType_PAYMENT_FAILED, "PAYMENT_FAILED"}

\* ======================================================================
\* C6  At most one message per payment.  The bus never holds more than one
\* PaymentCompleted message and never more than one PaymentFailed message
\* keyed by the same payment id.
C6_AtMostOneMessage ==
  \A p \in Ids(payments) : \A types \in {CompletedTypes, FailedTypes} :
    Cardinality({m \in Ids(bus) : bus[m].key = payments[p].id
                                  /\ bus[m].eventType \in types}) <= 1

\* ======================================================================
\* C7  Eventual publication.  With ticks occurring and the bus accepting,
\* from some point on every outbox row is marked published = true and its
\* message is on the bus.
C7_EveryRowPublished ==
  <>[](\A j \in Ids(outbox) : outbox[j].published /\ OnBus(outbox[j].id))

ExhaustedScan ==
  IF publisher = "service" THEN getFailedEvents(MAX_RETRIES)
  ELSE findFailedEvents(LAMBDA_MAX_RETRIES)

IsPublished(row) == row.published /\ row.publishedAt # Null /\ OnBus(row.id)
IsPending(row)   == ~row.published /\ row.retryCount < MaxRetriesOf(publisher)
IsExhausted(row) ==
  ~row.published /\ row.retryCount >= MaxRetriesOf(publisher) /\ row.id \in ExhaustedScan

C10_BusOrderIsCreatedAtOrder ==
  \A m1, m2 \in Ids(bus) :
    (m1 < m2 /\ bus[m1].key = bus[m2].key /\ bus[m1].topic = bus[m2].topic)
      => outbox[RowAt(bus[m1].rowId)].createdAt <= outbox[RowAt(bus[m2].rowId)].createdAt

\* ------------------------------------------------------ outbox maintenance
\* In this part the wall clock counts days.
RETENTION_DAYS        == 7
LAMBDA_RETENTION_DAYS == 7
MaxDay == 8

\* cutoffDate.setDate(cutoffDate.getDate() - days)
cutoffDate(t, days) == t - days

\* A deleteOldPublishedEvents that spares the rows that were retried.
deleteOldPublishedEvents_KeepsRetried(olderThanDays, t) ==
  LET Matches(row) ==
        /\ row.published
        /\ row.retryCount = 0
        /\ IF row.publishedAt = Null THEN FALSE
           ELSE row.publishedAt[1] < cutoffDate(t, olderThanDays)
      Keep(row) == ~Matches(row)
  IN SelectSeq(outbox, Keep)

\* OutboxService.deleteOldPublishedEvents: the table without the rows its
\* deleteMany matches, published = true and publishedAt before the cutoff
\* (a null publishedAt matches no comparison).
deleteOldPublishedEvents(olderThanDays, t) ==
  LET Matches(row) ==
        /\ row.published
        /\ IF row.publishedAt = Null THEN FALSE
           ELSE row.publishedAt[1] < cutoffDate(t, olderThanDays)
      Keep(row) == ~Matches(row)
  IN SelectSeq(outbox, Keep)

\* deleteOldEvents of the Lambda cleanup handler: the table without the
\* rows whose publishedAt is not null and before the cutoff.
deleteOldEvents(retentionDays, t) ==
  LET Matches(row) ==
        IF row.publishedAt = Null THEN FALSE
        ELSE row.publishedAt[1] < cutoffDate(t, retentionDays)
      Keep(row) == ~Matches(row)
  IN SelectSeq(outbox, Keep)

\* OutboxService.resetFailedEvent
resetFailedEvent(id) == UpdateOutbox(id, [retryCount |-> 0, lastError |-> Null])

\* OutboxPublisherService.cleanupOldEvents, the daily job: the count of the
\* deleted rows is logged; a deleteMany that throws is logged and deletes
\* nothing.
CleanupOldEvents ==
  /\ publisher = "service"
  /\ \/ /\ outbox' = deleteOldPublishedEvents(RETENTION_DAYS, now)
        /\ sent' = Answer("cleanup", 200, [deleted |-> Len(outbox) - Len(outbox')])
        /\ UNCHANGED faults
     \/ /\ faults < MaxFaults
        /\ faults' = faults + 1
        /\ sent' = Answer("cleanup", 500, "Error during cleanup")
        /\ UNCHANGED outbox
  /\ UNCHANGED <<payments, outboxSeq, bus, now, links, intent, req, rowLock,
                 pub, proc, publisher>>

\* OutboxPublisherService.monitorFailedEvents, the hourly job: a warning
\* with the ids of the exhausted rows, nothing when there are none.
MonitorFailedEvents ==
  /\ publisher = "service"
  /\ LET failedEvents == getFailedEvents(MAX_RETRIES) IN
     IF failedEvents = {} THEN UNCHANGED sent
     ELSE sent' = Answer("monitor", 200,
                         [count |-> Cardinality(failedEvents), eventIds |-> failedEvents])
  /\ UNCHANGED <<payments, outbox, outboxSeq, bus, now, links, intent, req, rowLock,
                 pub, proc, faults, publisher>>

\* handleScheduledEvent of the Lambda cleanup function: performCleanup
\* deletes, scans for exhausted rows and answers with both counts; a
\* failing query is answered with status 500.
LambdaCleanup ==
  /\ publisher = "lambda"
  /\ \/ /\ outbox' = deleteOldEvents(LAMBDA_RETENTION_DAYS, now)
        /\ sent' = Answer("cleanup", 200,
                          [deleted |-> Len(outbox) - Len(outbox'),
                           failedCount |-> Cardinality(findFailedEvents(LAMBDA_MAX_RETRIES))])
        /\ UNCHANGED faults
     \/ /\ faults < MaxFaults
        /\ faults' = faults + 1
        /\ sent' = Answer("cleanup", 500, "Outbox cleanup failed")
        /\ UNCHANGED outbox
  /\ UNCHANGED <<payments, outboxSeq, bus, now, links, intent, req, rowLock,
                 pub, proc, publisher>>

\* An operator's call of OutboxService.resetFailedEvent for a row of the
\* in-process publisher's table.
ResetFailedEvent(id) ==
  /\ publisher = "service"
  /\ outbox' = resetFailedEvent(id)
  /\ UNCHANGED <<payments, outboxSeq, bus, now, links, intent, req, rowLock,
                 pub, proc, faults, publisher, sent>>

\* A retention period passes.
Elapse ==
  /\ now + RETENTION_DAYS <= MaxDay
  /\ now' = now + RETENTION_DAYS
  /\ UNCHANGED <<payments, outbox, outboxSeq, bus, links, intent, req, rowLock,
                 pub, proc, faults, publisher, sent>>

NextMaintenance ==
  \/ Tick
  \/ \E k \in DOMAIN pub.at : PublishSend(k)
  \/ \E k \in DOMAIN pub.at : PublishMark(k)
  \/ TickEnd
  \/ ProcStart
  \/ ProcPublish
  \/ ProcUpdate
  \/ CleanupOldEvents
  \/ MonitorFailedEvents
  \/ LambdaCleanup
  \/ \E id \in RowIds : ResetFailedEvent(id)
  \/ AdvanceClock
  \/ Elapse

SpecMaintenance == InitOutbox /\ [][NextMaintenance]_vars

\* The row of id in the table after the step, if it is still there.
Kept(j) == {k \in Ids(outbox') : outbox'[k].id = outbox[j].id}

\* ======================================================================
\* C11 (as stated)  retryCount never decreases: no step lowers the
\* retryCount of a row that stays in the table.
C11_RetryCountNeverDecreases ==
  [][\A j \in Ids(outbox) : \A k \in Kept(j) :
       outbox'[k].retryCount >= outbox[j].retryCount]_vars

\* C11 (amended)  retryCount never decreases except by resetFailedEvent:
\* a step that lowers a row's retryCount sets it to 0, clears lastError and
\* changes nothing else in the table; every other step leaves each row's
\* retryCount as it was or raises it.
C11_OnlyResetLowersRetryCount ==
  [][\A j \in Ids(outbox) : \A k \in Kept(j) :
       \/ outbox'[k].retryCount >= outbox[j].retryCount
       \/ outbox' = [outbox EXCEPT ![j] = UpdateRow(outbox[j],
                                            [retryCount |-> 0, lastError |-> Null])]]_vars

\* A reset has acted: with no tick in progress a row whose message the bus
\* acknowledged is unpublished with retryCount 0 (the failed
\* markAsPublished had been counted), next to a row that kept its count.
C11_Witness ==
  /\ publisher = "service"
  /\ ~pub.isProcessing
  /\ \E j \in Ids(outbox) :
       ~outbox[j].published /\ outbox[j].retryCount = 0 /\ OnBus(outbox[j].id)
  /\ \E j \in Ids(outbox) : outbox[j].retryCount > 0

RetentionOf(p) == IF p = "service" THEN RETENTION_DAYS ELSE LAMBDA_RETENTION_DAYS

\* published = true and publishedAt earlier than t minus the retention.
PublishedBefore(row, t) ==
  /\ row.published
  /\ row.publishedAt # Null
  /\ row.publishedAt[1] < t - RetentionOf(publisher)

\* ======================================================================
\* C12  Cleanup deletes only published rows past the retention horizon:
\* every row that a step removes from the outbox table has published =
\* true and a publishedAt earlier than now minus the retention.
C12_OnlyOldPublishedRowsDeleted ==
  [][\A j \in Ids(outbox) : Kept(j) = {} => PublishedBefore(outbox[j], now)]_vars

\* ======================================================================
\* C13  Cleanup retention.  Right after a cleanup run that completed
\* successfully no row is left with published = true and publishedAt
\* earlier than now minus the retention, and the run has reported the
\* number of rows it deleted.
C13_NoOldPublishedRowAfterCleanup ==
  [][((CleanupOldEvents \/ LambdaCleanup) /\ sent'.code = 200) =>
       /\ \A k \in Ids(outbox') : ~PublishedBefore(outbox'[k], now)
       /\ sent'.body.deleted = Len(outbox) - Len(outbox')]_vars

\* A cleanup run of the in-process publisher has deleted an old published
\* row and left another row.
C13_Witness ==
  /\ publisher = "service"
  /\ sent.kind = "cleanup"
  /\ sent.code = 200
  /\ sent.body.deleted >= 1
  /\ Len(outbox) >= 1
  /\ \A k \in Ids(outbox) : ~PublishedBefore(outbox[k], now)

\* The event types the switch of the Lambda processor names.
LambdaRouted == {Lambda_PAYMENT_COMPLETED, "PAYMENT_FAILED", "PAYMENT_CANCELLED"}

\* The row's eventType is unknown to the deployed publisher's routing.
NoRoute(row) ==
  IF publisher = "service" THEN getTopicForEventType(row.eventType) = Null
  ELSE row.eventType \notin LambdaRouted

BatchIds(batch) == {batch[k].id : k \in DOMAIN batch}

\* ======================================================================
\* C14  Unroutable rows exhaust and stay.  A row whose eventType has no
\* route is never deleted, never published and never put on the bus; each
\* time the publisher handles it its retryCount goes up by one; and once
\* retryCount has reached maxRetries it stays there, no tick fetches the
\* row again and the exhausted scan returns it.
C14_UnroutableRowExhausts ==
  [][\A j \in Ids(outbox) : NoRoute(outbox[j]) =>
       LET id == outbox[j].id IN
       /\ Kept(j) # {}
       /\ \A k \in Kept(j) :
            /\ ~outbox'[k].published /\ outbox'[k].publishedAt = Null
            /\ ~\E m \in Ids(bus') : bus'[m].rowId = id
            /\ (\E e \in DOMAIN pub.at : PublishSend(e) /\ pub.batch[e].id = id)
                 => outbox'[k].retryCount = outbox[j].retryCount + 1
            /\ (ProcUpdate /\ proc.batch[proc.i].id = id)
                 => outbox'[k].retryCount = outbox[j].retryCount + 1
            /\ outbox[j].retryCount >= MaxRetriesOf(publisher) =>
                 /\ outbox'[k].retryCount >= MaxRetriesOf(publisher)
                 /\ id \in ExhaustedScan'
                 /\ Tick => id \notin BatchIds(pub'.batch)
                 /\ ProcStart => (proc'.pc = "idle" \/ id \notin BatchIds(proc'.batch))]_vars

\* The row of id after the step.
RowAfter(id) == {k \in Ids(outbox') : outbox'[k].id = id}

\* The error starts with 'Unknown event type'.
UnknownEventTypeError(lastError) ==
  /\ lastError # Null
  /\ Len(lastError[1]) >= 18
  /\ SubSeq(lastError[1], 1, 18) = "Unknown event type"

\* ======================================================================
\* C15  Unknown event types are skipped.  When the publisher handles a
\* fetched record whose eventType its routing does not know, the bus is
\* left as it is, the row's retryCount goes up by one with an 'Unknown
\* event type' error, and the rest of the batch is still handled.
C15_UnknownTypeSkipped ==
  [][/\ \A e \in DOMAIN pub.at :
          (PublishSend(e) /\ NoRoute(pub.batch[e])) =>
            /\ bus' = bus
            /\ RowAfter(pub.batch[e].id) # {}
            /\ \A k \in RowAfter(pub.batch[e].id) :
                 /\ outbox'[k].retryCount = outbox[RowAt(pub.batch[e].id)].retryCount + 1
                 /\ UnknownEventTypeError(outbox'[k].lastError)
            /\ pub'.isProcessing
            /\ \A o \in DOMAIN pub.at : o # e => pub'.at[o] = pub.at[o]
     /\ (proc.pc = "publish" /\ NoRoute(proc.batch[proc.i]) /\ ProcPublish) =>
            /\ bus' = bus
            /\ ~proc'.success
     /\ (proc.pc = "update" /\ NoRoute(proc.batch[proc.i]) /\ ProcUpdate) =>
            /\ \A k \in RowAfter(proc.batch[proc.i].id) :
                 /\ outbox'[k].retryCount = outbox[RowAt(proc.batch[proc.i].id)].retryCount + 1
                 /\ UnknownEventTypeError(outbox'[k].lastError)
            /\ proc.i < Len(proc.batch) =>
                 (proc'.pc = "publish" /\ proc'.i = proc.i + 1)]_vars

\* The routing table: event type to topic, in either spelling of the types.
CancelledTypes == {"PaymentCancelled", "PAYMENT_CANCELLED"}
RoutingTable(eventType) ==
  IF eventType \in CompletedTypes THEN <<"payment.completed">>
  ELSE IF eventType \in FailedTypes THEN <<"payment.failed">>
  ELSE IF eventType \in CancelledTypes THEN <<"payment.cancelled">>
  ELSE Null

\* ======================================================================
\* C16  Routing.  Every message on the bus is on the topic the routing
\* table gives for its event type and is keyed by the id of a payment, and
\* the deployed publisher has a route for every row of the three event
\* types.
C16_RoutedByEventType ==
  /\ \A m \in Ids(bus) :
       /\ <<bus[m].topic>> = RoutingTable(bus[m].eventType)
       /\ \E p \in Ids(payments) : payments[p].id = bus[m].key
  /\ \A j \in Ids(outbox) :
       RoutingTable(outbox[j].eventType) # Null => ~NoRoute(outbox[j])

\* ------------------------------------------------- publisher ticks, shutdown
\* OutboxPublisherService.onModuleDestroy up to its loop: isShuttingDown is
\* set; with no tick in progress the hook completes at once.
OnModuleDestroy ==
  /\ publisher = "service"
  /\ pub.destroy = "none"
  /\ pub' = [pub EXCEPT !.isShuttingDown = TRUE,
                        !.destroy = IF pub.isProcessing THEN "waiting" ELSE "complete"]
  /\ UNCHANGED <<payments, outbox, outboxSeq, bus, now, links, intent, req, rowLock,
                 proc, faults, publisher, sent>>

\* The loop of onModuleDestroy, polling every 100 ms for as long as it
\* takes, finds isProcessing cleared.
DestroyComplete ==
  /\ pub.destroy = "waiting"
  /\ ~pub.isProcessing
  /\ pub' = [pub EXCEPT !.destroy = "complete"]
  /\ UNCHANGED <<payments, outbox, outboxSeq, bus, now, links, intent, req, rowLock,
                 proc, faults, publisher, sent>>

\* KafkaProducerService.onModuleDestroy: producer.disconnect().  The hooks
\* of the two modules run one after the other, in the framework's order:
\* this one before the publisher's hook has begun or after it has completed.
ProducerDisconnect ==
  /\ publisher = "service"
  /\ pub.producer = "connected"
  /\ pub.destroy \in {"none", "complete"}
  /\ pub' = [pub EXCEPT !.producer = "disconnected"]
  /\ UNCHANGED <<payments, outbox, outboxSeq, bus, now, links, intent, req, rowLock,
                 proc, faults, publisher, sent>>

InitPublisher == InitOutbox /\ publisher = "service"

NextPublisher ==
  \/ Tick
  \/ TriggerManualProcessing
  \/ \E k \in DOMAIN pub.at : PublishSend(k)
  \/ \E k \in DOMAIN pub.at : PublishMark(k)
  \/ TickEnd
  \/ OnModuleDestroy
  \/ DestroyComplete
  \/ ProducerDisconnect
  \/ AdvanceClock

SpecPublisher == InitPublisher /\ [][NextPublisher]_vars

\* ======================================================================
\* C17  One tick at a time.  A call of processOutboxEvents, scheduled or
\* manual, made while a tick is in progress changes neither the publisher's
\* state nor the outbox nor the bus, and no step replaces the batch of a
\* tick in progress: every fetched row belongs to the one tick in progress.
C17_OneTickAtATime ==
  [][/\ (pub.isProcessing /\ (Tick \/ TriggerManualProcessing))
          => UNCHANGED <<pub, outbox, bus>>
     /\ (pub.isProcessing /\ pub'.isProcessing)
          => (pub'.batch = pub.batch /\ \A k \in DOMAIN pub.at : pub.at[k] # "pending"
                                                               => pub'.at[k] # "pending")]_vars

\* A tick is in progress with one event acknowledged and another one still
\* to be published: the state in which a further call returns at once.
C17_Witness ==
  /\ pub.isProcessing
  /\ \E k \in DOMAIN pub.at : pub.at[k] = "sent"
  /\ \E k \in DOMAIN pub.at : pub.at[k] = "pending"

\* ======================================================================
\* C18  Cooperative shutdown.  Once shutdown is requested no new tick
\* starts, and the producer is disconnected only when no tick is in
\* progress.
C18_CooperativeShutdown ==
  [][/\ (pub.isShuttingDown /\ ~pub.isProcessing) => ~pub'.isProcessing
     /\ (pub.producer = "connected" /\ pub'.producer = "disconnected")
          => ~pub.isProcessing]_vars

\* --------------------------------------------------------- webhook answers
\* PaymentController.handleZalopayCallback, the service's HTTP route:
\* PaymentService.handleCallback is called without await and its result is
\* dropped, so the route answers at once with the status of a @Post route,
\* 201, and an empty body, whatever the callback.
handleZalopayCallback(body) == Answer("http", 201, "")

\* ======================================================================
\* C19  Webhooks are always answered 200.  Whatever the request, the
\* answer is HTTP 200: the answers of the Lambda function to requests that
\* end before any write and after the transaction, committed or failed,
\* and the answer of the service's HTTP route.
C19_WebhookAlways200 ==
  /\ sent.kind = "lambda" => sent.code = 200
  /\ \A raw \in Unparsed : LambdaUnparsed(raw).code = 200
  /\ \A body \in Bodies : LambdaEarly(body) # Null => LambdaEarly(body)[1].code = 200
  /\ \A body \in ZaloBodies : handleZalopayCallback(body).code = 200

\* ZaloPay callbacks whose MAC does not match their data.
BadMac == {body \in ZaloBodies : ~body.sigOk}

\* ======================================================================
\* C20  A bad MAC changes nothing.  A ZaloPay callback whose MAC does not
\* verify is answered 200 with return_code -1 and return_message "Invalid
\* mac" by either ingress, and handling it changes no payment row, appends
\* no outbox row and leaves no request in flight: a PENDING payment it
\* names stays PENDING.
C20_BadMacChangesNothing ==
  [][\A body \in BadMac :
       LET failure == initZaloPayCallbackRes(-1, "Invalid mac") IN
       /\ LambdaEarly(body) = <<Answer("lambda", 200, failure)>>
       /\ ServiceEarly(body) = <<Answer("service", "returned", failure)>>
       /\ handleZalopayCallback(body).code = 200
       /\ handleZalopayCallback(body).body = failure
       /\ (LambdaHandle(body) \/ ServiceHandle(body))
            => UNCHANGED <<payments, outbox, outboxSeq, req, rowLock, sent>>]_vars

\* ------------------------------------------------------ terminal webhooks
\* The adapter's output names, by its provider transaction id, a payment
\* of the callback's provider whose status is in statuses.
Names(body, out, statuses) ==
  /\ out.pid # Null
  /\ findByProviderTransactionId(out.pid[1]) # Null
  /\ payments[findByProviderTransactionId(out.pid[1])[1]].provider = body.provider
  /\ payments[findByProviderTransactionId(out.pid[1])[1]].status \in statuses

\* The adapter reports a failure for a payment that is PENDING.
FailedOfPending(body, out) == ~out.success /\ Names(body, out, {PENDING})

\* The rows of outbox table rows that carry event type eventType for payment i.
RowsOfType(rows, i, eventType) ==
  {j \in Ids(rows) : rows[j].aggregateId = payments[i].id /\ rows[j].eventType = eventType}

\* ======================================================================
\* C21  A failure webhook fails the payment.  When the adapter reports a
\* failure with the provider transaction id of a PENDING payment, the
\* handler does not end before its transaction; the commit sets
\* the status FAILED and failedAt and appends the payment's one
\* PaymentFailed outbox row, and the answer carries the adapter's response
\* (HTTP 200 from the Lambda function).
C21_FailureWebhookFailsPayment ==
  /\ [](\A body \in Bodies :
          /\ FailedOfPending(body, LambdaCallback(body)) => LambdaEarly(body) = Null
          /\ FailedOfPending(body, ServiceCallback(body)) => ServiceEarly(body) = Null)
  /\ [][\A r \in InFlight :
          (/\ r.pc = "updated"
           /\ r.kind = "service"
           /\ r.event = "failed"
           /\ payments[r.target].status = PENDING
           /\ TxCommit(r))
            => /\ payments'[r.target].status = FAILED
               /\ payments'[r.target].failedAt # Null
               /\ Len(outbox') = Len(outbox) + 1
               /\ Cardinality(RowsOfType(outbox', r.target, EventType_PAYMENT_FAILED)) = 1
               /\ sent'.body = r.response]_vars

\* The adapter reports a success for a payment whose status is in statuses.
SucceededOf(body, out, statuses) == out.success /\ Names(body, out, statuses)

\* ======================================================================
\* C22  A duplicate success webhook is a no-op.  When the adapter reports a
\* success for a payment that is COMPLETED, the handler ends before any
\* write, so that neither the payment row nor the outbox changes, and it
\* answers with the adapter's response (HTTP 200 from the Lambda function).
C22_DuplicateSuccessNoOp ==
  \A body \in Bodies :
    /\ SucceededOf(body, LambdaCallback(body), {COMPLETED})
         => LambdaEarly(body) = <<Answer("lambda", 200, LambdaCallback(body).response)>>
    /\ SucceededOf(body, ServiceCallback(body), {COMPLETED})
         => ServiceEarly(body) = <<Answer("service", "returned", ServiceCallback(body).response)>>

\* An answer that acknowledges the provider or caller: HTTP 200 from the
\* Lambda function, a normal return from the service.
Acknowledged(early) ==
  /\ early # Null
  /\ early[1].code = (IF early[1].kind = "lambda" THEN 200 ELSE "returned")

\* ======================================================================
\* C23  Conflicts change nothing.  A request against a payment that is in
\* a terminal status other than the request's target (a success webhook
\* for a FAILED or CANCELLED payment, a failure webhook for a COMPLETED or
\* CANCELLED one, a cancel of a COMPLETED or FAILED one) ends before any
\* write, so that no payment field changes and no outbox row is appended,
\* and it is acknowledged rather than answered with an error.
C23_ConflictChangesNothing ==
  /\ \A body \in Bodies :
       /\ SucceededOf(body, LambdaCallback(body), {FAILED, CANCELLED})
            => Acknowledged(LambdaEarly(body))
       /\ SucceededOf(body, ServiceCallback(body), {FAILED, CANCELLED})
            => Acknowledged(ServiceEarly(body))
       /\ (~LambdaCallback(body).success
             /\ Names(body, LambdaCallback(body), {COMPLETED, CANCELLED}))
            => Acknowledged(LambdaEarly(body))
       /\ (~ServiceCallback(body).success
             /\ Names(body, ServiceCallback(body), {COMPLETED, CANCELLED}))
            => Acknowledged(ServiceEarly(body))
  /\ \A o \in OrderCodes :
       (/\ findByOrderCode(o) # Null
        /\ payments[findByOrderCode(o)[1]].status \in {COMPLETED, FAILED})
         => Acknowledged(CancelEarly(o))

\* ======================================================================
\* C24  Unique order code.  No two payments rows share an order code,
\* whatever the createPaymentIntent calls and their interleaving; an
\* insert whose order code is already stored fails and creates no row.
C24_UniqueOrderCode ==
  /\ [](\A o \in OrderCodes : Cardinality(RowsByOrderCode(o)) <= 1)
  /\ [][\A c \in Calls :
          (/\ intent[c].pc = "linked"
           /\ RowsByOrderCode(intent[c].dto.orderCode) # {}
           /\ IntentInsert(c))
            => (payments' = payments /\ intent'[c].outcome = "threw")]_vars

\* A call with another idempotency key lost the insert to the row that
\* holds its order code.
C24_Witness ==
  \E c \in Calls : \E i \in Ids(payments) :
    /\ intent[c].pc = "done"
    /\ intent[c].error = "UniqueConstraint"
    /\ payments[i].orderCode = intent[c].dto.orderCode
    /\ payments[i].idempotencyKey # intent[c].dto.idempotencyKey

\* ======================================================================
\* C25  Timestamps follow the status.  For every payment, completedAt is
\* set exactly when the status is COMPLETED, failedAt exactly when it is
\* FAILED and cancelledAt exactly when it is CANCELLED; a PENDING payment
\* has none of the three.
C25_TimestampIffStatus ==
  \A i \in Ids(payments) :
    /\ (payments[i].completedAt # Null) <=> (payments[i].status = COMPLETED)
    /\ (payments[i].failedAt # Null) <=> (payments[i].status = FAILED)
    /\ (payments[i].cancelledAt # Null) <=> (payments[i].status = CANCELLED)

\* ----------------------------------------------------------------- fetches
\* The row carries no mark of publication.
Unpublished(row) == ~row.published /\ row.publishedAt = Null

\* The limits and retry ceilings a fetch is called with: the publishers'
\* own and smaller ones.
Limits       == 1..MaxLimit \cup {BATCH_SIZE, LAMBDA_BATCH_SIZE}
RetryCeilings == 1..MAX_RETRIES

\* events is a batch as a fetch with limit and maxRetries is to return it.
FetchedInOrder(events, limit, maxRetries) ==
  LET rowOf(k) == outbox[RowAt(events[k].id)]
      inBatch  == {events[k].id : k \in DOMAIN events}
  IN /\ Len(events) <= limit
     /\ \A k \in DOMAIN events :
          /\ events[k].id \in RowIds
          /\ Unpublished(rowOf(k))
          /\ rowOf(k).retryCount < maxRetries
     /\ \A a, b \in DOMAIN events : a < b =>
          (events[a].id # events[b].id /\ rowOf(a).createdAt <= rowOf(b).createdAt)
     /\ \A j \in Ids(outbox) :
          (Unpublished(outbox[j]) /\ outbox[j].retryCount < maxRetries
             /\ outbox[j].id \notin inBatch)
            => /\ Len(events) = limit
               /\ \A k \in DOMAIN events : rowOf(k).createdAt <= outbox[j].createdAt

\* ======================================================================
\* C26  Fetch.  Every batch a publisher fetch can return has at most
\* batchSize rows, all of them unpublished with retryCount < maxRetries,
\* in ascending createdAt order, and leaves an eligible row out only when
\* the batch is full of rows created no later than it.  This holds of
\* getUnpublishedEvents and of the Lambda processor's findMany, for each
\* limit and retry ceiling, in every state of the outbox table.
C26_FetchOldestEligible ==
  /\ \A limit \in Limits : \A maxRetries \in RetryCeilings :
       /\ publisher = "service" =>
            \A events \in getUnpublishedEvents(limit, maxRetries) :
              FetchedInOrder(events, limit, maxRetries)
       /\ publisher = "lambda" =>
            \A events \in pendingEvents(limit, maxRetries) :
              FetchedInOrder(events, limit, maxRetries)

\* A tick has fetched a batch of one row: the table's other row was left
\* out because it is published.
C26_Witness ==
  /\ pub.isProcessing
  /\ Len(pub.batch) = 1
  /\ Len(outbox) = 2
  /\ \A k \in DOMAIN pub.at : pub.at[k] = "pending"
  /\ \E j \in Ids(outbox) : outbox[j].published

\* ------------------------------------------------------- processor counts
\* The counters of the run after a step: those of the loop, or, when the
\* run has returned, those of its result.
CountsAfter ==
  IF proc'.pc = "idle"
  THEN [succeeded |-> sent'.body.succeeded, failed |-> sent'.body.failed]
  ELSE [succeeded |-> proc'.succeeded, failed |-> proc'.failed]

\* ======================================================================
\* C27  Processor counts.  A run of the outbox processor attempts the
\* fetched records one after the other, each once and whatever became of
\* the records before it; a record is counted as succeeded when its publish
\* and its status update both succeeded and as failed otherwise; and the
\* run returns processed = number of records fetched = succeeded + failed.
C27_ProcessorCounts ==
  [][/\ (ProcStart /\ proc'.pc # "idle")
          => (proc'.i = 1 /\ proc'.succeeded = 0 /\ proc'.failed = 0)
     /\ ProcPublish => (proc'.i = proc.i /\ proc'.batch = proc.batch
                        /\ proc'.succeeded = proc.succeeded /\ proc'.failed = proc.failed)
     /\ ProcUpdate =>
          LET ok == proc.success /\ faults' = faults IN
          /\ CountsAfter.succeeded = proc.succeeded + (IF ok THEN 1 ELSE 0)
          /\ CountsAfter.failed = proc.failed + (IF ok THEN 0 ELSE 1)
          /\ CountsAfter.succeeded + CountsAfter.failed = proc.i
          /\ proc.i < Len(proc.batch)
               => (proc'.pc = "publish" /\ proc'.i = proc.i + 1 /\ proc'.batch = proc.batch)
          /\ proc.i = Len(proc.batch)
               => /\ proc'.pc = "idle"
                  /\ sent'.kind = "processor"
                  /\ sent'.body.processed = Len(proc.batch)
                  /\ sent'.body.processed = sent'.body.succeeded + sent'.body.failed]_vars

\* A run over two records has returned: one succeeded, and one counts as
\* failed although the bus acknowledged its message, because its status
\* update failed: the row shows neither a publication nor a retry.
C27_Witness ==
  /\ sent.kind = "processor"
  /\ sent.body.processed = 2
  /\ sent.body.succeeded = 1
  /\ sent.body.failed = 1
  /\ \E j \in Ids(outbox) :
       OnBus(outbox[j].id) /\ outbox[j].publishedAt = Null /\ outbox[j].retryCount = 0

\* -------------------------------------------------- Lambda error answers
\* No payment is the one a successful callback is about: PayOS names it by
\* the stored paymentLinkId, ZaloPay by the order code that is the suffix
\* of its app_trans_id.
NoPaymentFor(body, pid) ==
  IF body.provider = "PAYOS" THEN RowsByProviderTx(pid) = {}
  ELSE RowsByOrderCode(<<pid[Len(pid)]>>) = {}

ValidationError400 == Answer("lambda", 400, "ValidationError")

\* ======================================================================
\* C28  Error answers of the Lambda webhook handler.  A request without a
\* body, a request whose provider cannot be told from path or body, and a
\* successful callback that matches no payment are answered 400 with error
\* 'ValidationError'; a body that is no JSON and a failed transaction are
\* answered 500.  The 400 answers and the JSON error end the handler before
\* its transaction; the failed transaction leaves payments and outbox as
\* they were.
C28_LambdaErrorAnswers ==
  /\ [](/\ LambdaUnparsed("no body") = ValidationError400
        /\ LambdaUnparsed("not JSON").code = 500
        /\ \A path \in Paths : \A fields \in Fields :
             (/\ path = "/webhook"
              /\ ~({"data", "mac", "type"} \subseteq fields)
              /\ ~({"code", "desc", "data", "signature"} \subseteq fields))
               => LambdaUndetected(path, fields) = <<ValidationError400>>
        /\ \A body \in Bodies :
             (LambdaCallback(body).success /\ NoPaymentFor(body, LambdaCallback(body).pid[1]))
               => LambdaEarly(body) = <<ValidationError400>>)
  /\ [][\A r \in InFlight :
          (r.kind = "lambda" /\ TxAbort(r))
            => (sent'.code = 500 /\ UNCHANGED <<payments, outbox, outboxSeq>>)]_vars

\* The transaction of a webhook has failed and the answer was 500: the
\* payment is still PENDING and the outbox empty, and a successful callback
\* that matches no payment is to be answered 400.
C28_Witness ==
  /\ sent.kind = "lambda"
  /\ sent.code = 500
  /\ payments[1].status = PENDING
  /\ outbox = << >>
  /\ \E body \in Bodies :
       /\ LambdaCallback(body).success
       /\ NoPaymentFor(body, LambdaCallback(body).pid[1])
       /\ LambdaEarly(body) = <<ValidationError400>>

BusinessCodeIs(exception, code) ==
  /\ Len(exception.message) >= Len(ToString(code))
  /\ SubSeq(exception.message, 1, Len(ToString(code))) = ToString(code)

\* ======================================================================
\* C30  Unknown idempotency key.  getPaymentUrlByIdempotencyKey for a key
\* without stored payment fails with the business error PaymentNotFound,
\* code 20000 (not with 20403, permission denied), and changes no state.
C30_UnknownKeyIsPaymentNotFound ==
  [][\A k \in Keys :
       (RowsByIdempotencyKey(k) = {} /\ sent'.kind = "grpc"
          /\ getPaymentUrlByIdempotencyKey(k))
         => /\ sent'.code # grpcStatus_OK
            /\ BusinessCodeIs(sent'.body, 20000)
            /\ ~BusinessCodeIs(sent'.body, 20403)
            /\ UNCHANGED <<payments, outbox, outboxSeq, intent, links>>]_vars

\* ------------------------------------------------------- url by key, hit
\* The lifecycle of a payment with lookups of its url in between.
NextQuery ==
  \/ NextLifecycle
  \/ \E k \in Keys : getPaymentUrlByIdempotencyKey(k)

SpecQuery == InitLifecycle /\ [][NextQuery]_vars

\* The encoding of the status in the response.
StatusCode(status) ==
  IF status = PENDING THEN 0 ELSE IF status = COMPLETED THEN 1
  ELSE IF status = FAILED THEN 2 ELSE 3

\* ======================================================================
\* C31  Url by idempotency key.  For a stored payment, whatever its status,
\* getPaymentUrlByIdempotencyKey with its key succeeds and returns the
\* paymentUrl stored at creation and the current status, encoded PENDING =
\* 0, COMPLETED = 1, FAILED = 2.
C31_UrlAndStatusOfStoredPayment ==
  [][\A k \in Keys : \A i \in RowsByIdempotencyKey(k) :
       (sent'.kind = "grpc" /\ getPaymentUrlByIdempotencyKey(k))
         => /\ sent'.code = grpcStatus_OK
            /\ sent'.body.paymentUrl = payments[i].paymentUrl
            /\ sent'.body.status = StatusCode(payments[i].status)]_vars

\* --------------------------------------------------- ZaloPay app_trans_id
\* The caller's orderCode is any non-empty string (CreatePaymentIntentDto:
\* IsNotEmpty, IsString), so it may itself contain '_': such a code is more
\* than one segment.
UnderscoreOrderCodes == {<<"o", "3">>}

\* One PENDING ZaloPay payment as a createPaymentIntent call at time 0
\* leaves it, for an order code with or without '_'.
SeedZaloPay(o) ==
  LET out == createPaymentLink("ZALOPAY", o, 0, 1)
  IN [idempotencyKey |-> "k1", orderCode |-> o, provider |-> "ZALOPAY",
      transactionId |-> out.transactionId, paymentUrl |-> out.url]

InitAppTransId ==
  /\ payments \in {<<NewPayment(1, SeedZaloPay(o))>> : o \in OrderCodes \cup UnderscoreOrderCodes}
  /\ outbox = << >>
  /\ outboxSeq = 0
  /\ bus = << >>
  /\ now = 0
  /\ links = 1
  /\ intent = [c \in Calls |-> IdleIntent]
  /\ req = EmptyBag
  /\ rowLock = {}
  /\ pub = IdlePub
  /\ proc = IdleProc
  /\ faults = 0
  /\ publisher = "service"
  /\ sent = NoAnswer

SpecAppTransId == InitAppTransId /\ [][NextLifecycle]_vars

Char(s, i) == SubSeq(s, i, i)

DecimalDigits  == "0123456789"
Base36Digits   == "0123456789ABCDEFGHIJKLMNOPQRSTUVWXYZ"
LowerCase      == "abcdefghijklmnopqrstuvwxyz"

\* String.indexOf for one character, counted from 1; 0 when absent.
IndexIn(alphabet, c) ==
  IF \E i \in 1..Len(alphabet) : Char(alphabet, i) = c
  THEN CHOOSE i \in 1..Len(alphabet) : Char(alphabet, i) = c
  ELSE 0

\* String.toUpperCase.
RECURSIVE toUpperCase(_)
toUpperCase(s) ==
  IF s = "" THEN ""
  ELSE LET c == Char(s, 1)
           k == IndexIn(LowerCase, c)
       IN (IF k = 0 THEN c ELSE Char(Base36Digits, 10 + k))
            \o toUpperCase(SubSeq(s, 2, Len(s)))

\* The value of a character as a digit of the radix, Null if it is none.
DigitOf(c, radix) ==
  LET k == IndexIn(Base36Digits, toUpperCase(c)) IN
  IF k = 0 \/ k > radix THEN Null ELSE <<k - 1>>

\* parseInt(s, radix): the value of the longest prefix of digits of the
\* radix; NaN (Null) when the first character is no digit.
RECURSIVE parsePrefix(_, _, _)
parsePrefix(s, radix, acc) ==
  IF s = "" \/ DigitOf(Char(s, 1), radix) = Null THEN acc
  ELSE parsePrefix(SubSeq(s, 2, Len(s)), radix, acc * radix + DigitOf(Char(s, 1), radix)[1])

parseInt(s, radix) ==
  IF s = "" \/ DigitOf(Char(s, 1), radix) = Null THEN Null
  ELSE <<parsePrefix(s, radix, 0)>>

\* orderCode.match(/(\d{8})/): the leftmost run of eight digits.
IsDigits(s) == \A i \in 1..Len(s) : IndexIn(DecimalDigits, Char(s, i)) # 0
matchEightDigits(s) ==
  LET at == {i \in 1..(Len(s) - 7) : IsDigits(SubSeq(s, i, i + 7))} IN
  IF at = {} THEN Null
  ELSE LET i == CHOOSE i \in at : \A j \in at : i <= j
       IN <<SubSeq(s, i, i + 7)>>

\* orderCode.split('-').
RECURSIVE split(_, _)
split(s, sep) ==
  LET at == {i \in 1..Len(s) : Char(s, i) = sep} IN
  IF at = {} THEN <<s>>
  ELSE LET i == CHOOSE i \in at : \A j \in at : i <= j
       IN <<SubSeq(s, 1, i - 1)>> \o split(SubSeq(s, i + 1, Len(s)), sep)

\* s.slice(-n).
sliceLast(s, n) == IF Len(s) <= n THEN s ELSE SubSeq(s, Len(s) - n + 1, Len(s))

\* A PayOS order code is dateNum * 100000000 + a suffix below 100000000:
\* beyond 32 bits, so it is kept as its two digits of base 100000000.
PayOSBase == 100000000
PayOSNumber(high, low) == [high |-> high, low |-> low]

\* PayOSGateway.buildPayOSOrderCode of the service; Null when it throws.
buildPayOSOrderCode(orderCode) ==
  LET dateMatch == matchEightDigits(orderCode) IN
  IF dateMatch = Null THEN Null
  ELSE LET dateNum == parseInt(dateMatch[1], 10)[1]
           parts == split(orderCode, "-")
           alphanumeric == parts[Len(parts)]
       IN IF Len(alphanumeric) < 5 THEN Null
          ELSE LET last5 == toUpperCase(sliceLast(alphanumeric, 5))
                   alphaNum == parseInt(last5, 36)
               IN IF alphaNum = Null THEN Null
                  ELSE <<PayOSNumber(dateNum + (alphaNum[1] \div PayOSBase),
                                     alphaNum[1] % PayOSBase)>>

\* The Lambda's date prefix: two-digit year, month and day of `new Date()`;
\* the clock counts days from 8 October 2025.
datePrefix(t) == parseInt(ToString(251008 + t), 10)[1]

\* orderCode.replace(/\D/g, '').
RECURSIVE onlyDigits(_)
onlyDigits(s) ==
  IF s = "" THEN ""
  ELSE (IF IsDigits(Char(s, 1)) THEN Char(s, 1) ELSE "") \o onlyDigits(SubSeq(s, 2, Len(s)))

\* String.charCodeAt for the characters order codes are made of.
charCode(c) ==
  IF IndexIn(DecimalDigits, c) # 0 THEN 47 + IndexIn(DecimalDigits, c)
  ELSE IF IndexIn(LowerCase, c) # 0 THEN 96 + IndexIn(LowerCase, c)
  ELSE IF IndexIn(Base36Digits, c) # 0 THEN 54 + IndexIn(Base36Digits, c)
  ELSE IF c = "-" THEN 45 ELSE 95

RECURSIVE charCodes(_, _, _)
charCodes(s, i, numericSuffix) ==
  IF i > Len(s) \/ i > 8 THEN numericSuffix
  ELSE charCodes(s, i + 1, (numericSuffix * 10 + charCode(Char(s, i))) % PayOSBase)

\* PayOSGateway.convertOrderCodeToNumber of the Lambda, called on day t.
convertOrderCodeToNumber(orderCode, t) ==
  LET numericPart == onlyDigits(orderCode)
      numericSuffix == IF Len(numericPart) > 0
                       THEN parseInt(sliceLast(numericPart, 8), 10)[1] % PayOSBase
                       ELSE charCodes(orderCode, 1, 0)
  IN PayOSNumber(datePrefix(t), numericSuffix)

\* Caller order codes: TB-{EVENT}-{YYYYMMDD}-{8 alphanumerics} as the
\* gateway documents them, and codes that are not of that form.
EventCodes == {"TSE24", "12345678"}
OrderDates == {"20251008", "20251009", "20240229"}
OrderTails == {"A3B7K9M2", "a3b7k9m2", "00000001", "ZZZZZZZZ", "A3B7K_M2", "A3B"}
PayOSOrderCodes ==
  {"TB-" \o e \o "-" \o d \o "-" \o tail : e \in EventCodes, d \in OrderDates, tail \in OrderTails}
    \cup {"TB-TSE24-A3B7K9M2", "ORDER"}

\* createPaymentLink of the service's PayOS gateway up to the request body:
\* the numeric order code sent to PayOS.
ServicePayOSOrderCode(o) ==
  /\ sent' = Answer("payos", now,
                    [adapter |-> "service", orderCode |-> o, number |-> buildPayOSOrderCode(o)])
  /\ UNCHANGED <<payments, outbox, outboxSeq, bus, now, links, intent, req, rowLock,
                 pub, proc, faults, publisher>>

\* createPaymentLink of the Lambda's PayOS gateway up to the request body.
LambdaPayOSOrderCode(o) ==
  /\ sent' = Answer("payos", now,
                    [adapter |-> "lambda", orderCode |-> o,
                     number |-> <<convertOrderCodeToNumber(o, now)>>])
  /\ UNCHANGED <<payments, outbox, outboxSeq, bus, now, links, intent, req, rowLock,
                 pub, proc, faults, publisher>>

NextPayOS ==
  \/ \E o \in PayOSOrderCodes : ServicePayOSOrderCode(o)
  \/ \E o \in PayOSOrderCodes : LambdaPayOSOrderCode(o)
  \/ AdvanceClock

SpecPayOS == InitEmpty /\ [][NextPayOS]_vars

\* The order codes of the documented form TB-{EVENT}-{YYYYMMDD}-{TAIL}, TAIL
\* eight characters that are digits of base 36.
WellFormed(o) ==
  LET parts == split(o, "-") IN
  /\ Len(parts) = 4
  /\ Len(parts[3]) = 8 /\ IsDigits(parts[3])
  /\ Len(parts[4]) = 8
  /\ \A i \in 1..8 : DigitOf(Char(parts[4], i), 36) # Null

\* The base-36 value of a string of base-36 digits, digit by digit.
RECURSIVE Base36(_)
Base36(s) ==
  IF s = "" THEN 0
  ELSE Base36(SubSeq(s, 1, Len(s) - 1)) * 36 + DigitOf(Char(s, Len(s)), 36)[1]

\* The date of a well-formed order code, as a number.
RECURSIVE Decimal(_)
Decimal(s) ==
  IF s = "" THEN 0
  ELSE Decimal(SubSeq(s, 1, Len(s) - 1)) * 10 + (IndexIn(DecimalDigits, Char(s, Len(s))) - 1)

DateTimesBasePlusBase36(o) ==
  LET parts == split(o, "-") IN
  PayOSNumber(Decimal(parts[3]), Base36(SubSeq(parts[4], 4, 8)))

\* ======================================================================
\* C33  The PayOS numeric order code.  Whichever adapter computes it and on
\* whichever day, the number sent to PayOS for a well-formed order code is
\* the order code's eight-digit date times 10^8 plus the base-36 value of
\* the last five characters of its tail, so two computations for the same
\* order code give the same number; for "TB-TSE24-20251008-A3B7K9M2" it is
\* 20251008 * 10^8 + 12702890.
C33_PayOSOrderCodeOfOrderCodeAlone ==
  /\ [](sent.kind = "payos" /\ WellFormed(sent.body.orderCode)
          => /\ sent.body.number = <<DateTimesBasePlusBase36(sent.body.orderCode)>>
             /\ sent.body.orderCode = "TB-TSE24-20251008-A3B7K9M2"
                  => sent.body.number = <<PayOSNumber(20251008, 12702890)>>)
  /\ [][(sent.kind = "payos" /\ sent'.kind = "payos"
           /\ sent.body.orderCode = sent'.body.orderCode)
          => sent'.body.number = sent.body.number]_vars

\* ----------------------------------------------------- rows and payments
\* The payments an outbox row names by its aggregateId.
PaymentsOf(j) == {i \in Ids(payments) : payments[i].id = outbox[j].aggregateId}

\* ======================================================================
\* C34  Outbox rows follow their payment.  Every outbox row's aggregateId
\* is the id of a stored payment whose present status is the terminal
\* status of the row's eventType, and a PENDING payment has no outbox row.
C34_RowsMatchPaymentStatus ==
  /\ \A j \in Ids(outbox) :
       \E i \in PaymentsOf(j) : outbox[j].eventType \in EventTypesOf(payments[i].status)
  /\ \A i \in Ids(payments) : payments[i].status = PENDING => EventRows(i) = {}

\* ------------------------------------------------------ bounded retries
\* No row is twice in the batch.
Once(batch) == \A a, b \in 1..Len(batch) : batch[a].id = batch[b].id => a = b

\* The step is an attempt on the row of id: its message goes on the bus or
\* a retry is counted for it.
AttemptOn(id) ==
  \/ Len(bus') > Len(bus) /\ bus'[Len(bus')].rowId = id
  \/ \E j \in Ids(outbox) : \E k \in Kept(j) :
       outbox[j].id = id /\ outbox'[k].retryCount > outbox[j].retryCount

\* ======================================================================
\* C35  Bounded retries.  Every outbox row has 0 <= retryCount <=
\* maxRetries of the publisher deployed; a batch holds a row at most once,
\* and when a row is attempted (its message is put on the bus or a retry is
\* counted for it) its retryCount was below maxRetries.
C35_RetryCountBounded ==
  /\ [](/\ \A j \in Ids(outbox) :
             0 <= outbox[j].retryCount /\ outbox[j].retryCount <= MaxRetriesOf(publisher)
        /\ pub.isProcessing => Once(pub.batch)
        /\ proc.pc # "idle" => Once(proc.batch))
  /\ [][\A j \in Ids(outbox) :
          AttemptOn(outbox[j].id) => outbox[j].retryCount < MaxRetriesOf(publisher)]_vars

\* A row has used up its retries and no tick is in progress: the next
\* fetch leaves it out.
C35_Witness ==
  /\ ~pub.isProcessing
  /\ proc.pc = "idle"
  /\ \E j \in Ids(outbox) :
       /\ outbox[j].retryCount = MaxRetriesOf(publisher)
       /\ ~outbox[j].published
       /\ \A events \in getUnpublishedEvents(BATCH_SIZE, MAX_RETRIES) :
            \A k \in 1..Len(events) : events[k].id # outbox[j].id
       /\ \A events \in pendingEvents(LAMBDA_BATCH_SIZE, LAMBDA_MAX_RETRIES) :
            \A k \in 1..Len(events) : events[k].id # outbox[j].id

\* ------------------------------------------------------- counted retries
\* The step ends a bus publish of the row of id in failure: the service's
\* kafkaProducer.publish throws for a routed event of the batch, or the
\* Lambda's loop records a publishWithRetry that gave up.
BusPublishFailed(id) ==
  \/ \E k \in DOMAIN pub.at \cap DOMAIN pub'.at :
       /\ pub.isProcessing
       /\ pub.batch[k].id = id
       /\ getTopicForEventType(pub.batch[k].eventType) # Null
       /\ pub.at[k] = "pending"
       /\ pub'.at[k] = "done"
  \/ /\ proc.pc = "update"
     /\ proc' # proc
     /\ ~proc.success
     /\ proc.batch[proc.i].id = id

\* ======================================================================
\* C36  retryCount counts the failed bus publishes.  In every step a row's
\* retryCount goes up by exactly one if the step is the failure of a bus
\* publish of that row, and stays as it is otherwise - in particular when
\* the bus has acknowledged the row's message.
C36_RetryCountCountsBusFailures ==
  [][\A j \in Ids(outbox) : \A k \in Kept(j) :
       outbox'[k].retryCount
         = outbox[j].retryCount + (IF BusPublishFailed(outbox[j].id) THEN 1 ELSE 0)]_vars

\* ======================================================================
\* C37  The deployments agree on what is published.  Every outbox row has
\* published = true exactly when its publishedAt is set, so the rows the
\* in-process publisher takes for unpublished, exhausted or old enough to
\* delete are those the Lambda processor and cleanup take for such.
C37_PublishedIffPublishedAt ==
  /\ \A j \in Ids(outbox) : outbox[j].published <=> outbox[j].publishedAt # Null
  /\ \A limit \in Limits : \A maxRetries \in RetryCeilings :
       /\ getUnpublishedEvents(limit, maxRetries) = pendingEvents(limit, maxRetries)
       /\ getFailedEvents(maxRetries) = findFailedEvents(maxRetries)

\* ------------------------------------------------------------- frame
\* The columns of an outbox row that say what happened, as opposed to the
\* publisher's bookkeeping.
SameEvent(old, new) ==
  /\ new.id = old.id
  /\ new.aggregateId = old.aggregateId
  /\ new.aggregateType = old.aggregateType
  /\ new.eventType = old.eventType
  /\ new.payload = old.payload
  /\ new.createdAt = old.createdAt

\* A step of the publisher, in process or Lambda: the tick or the run has
\* moved on.
PublisherStep == pub' # pub \/ proc' # proc

\* ======================================================================
\* C38  The publisher owns no record.  No step of the publisher, of the
\* exhausted scan or of a cleanup changes the payments table or the
\* aggregateId, aggregateType, eventType, payload or createdAt of an outbox
\* row that stays in the table; a step of the publisher neither adds nor
\* removes an outbox row, so it changes at most published, publishedAt,
\* retryCount and lastError.
C38_PublisherChangesFlagsOnly ==
  [][/\ payments' = payments
     /\ \A j \in Ids(outbox) : \A k \in Kept(j) : SameEvent(outbox[j], outbox'[k])
     /\ PublisherStep
          => /\ Len(outbox') = Len(outbox)
             /\ \A j \in Ids(outbox) : SameEvent(outbox[j], outbox'[j])]_vars

\* The publisher has written all four of its fields on a row that a
\* payment's transition had appended: the row is published after a counted
\* retry, and still carries the payment's id and an event type of its own.
C38_Witness ==
  \E j \in Ids(outbox) :
    /\ outbox[j].published
    /\ outbox[j].publishedAt # Null
    /\ outbox[j].retryCount > 0
    /\ outbox[j].lastError # Null
    /\ outbox[j].aggregateId = payments[1].id
    /\ outbox[j].createdAt < now

\* ---------------------------------------------------- the tick, step by step
\* The publisher's fields with one more: fetched, whether the
\* getUnpublishedEvents of the tick in progress has returned.
IdleTick ==
  [isProcessing |-> FALSE, isShuttingDown |-> FALSE, batch |-> << >>, at |-> << >>,
   destroy |-> "none", producer |-> "connected", fetched |-> FALSE]

\* processOutboxEvents up to its first await: with one of the two flags set
\* the call returns at once, otherwise isProcessing is set.
TickBegin ==
  /\ publisher = "service"
  /\ ~pub.isProcessing
  /\ ~pub.isShuttingDown
  /\ pub' = [pub EXCEPT !.isProcessing = TRUE, !.fetched = FALSE]
  /\ UNCHANGED <<payments, outbox, outboxSeq, bus, now, links, intent, req, rowLock,
                 proc, faults, publisher, sent>>

\* A processOutboxEvents without the finally block: when the fetch throws
\* or returns nothing the call ends with isProcessing still set.
TickFetch_NoFinally ==
  /\ pub.isProcessing
  /\ ~pub.fetched
  /\ \/ /\ faults < MaxFaults
        /\ faults' = faults + 1
        /\ pub' = [pub EXCEPT !.fetched = TRUE]
     \/ /\ UNCHANGED faults
        /\ \E events \in getUnpublishedEvents(BATCH_SIZE, MAX_RETRIES) :
             IF Len(events) = 0
             THEN pub' = [pub EXCEPT !.fetched = TRUE]
             ELSE pub' = [pub EXCEPT !.fetched = TRUE, !.batch = events,
                                     !.at = [k \in 1..Len(events) |-> "pending"]]
  /\ UNCHANGED <<payments, outbox, outboxSeq, bus, now, links, intent, req, rowLock,
                 proc, publisher, sent>>

\* The await of getUnpublishedEvents returns.  It throws: the catch block
\* logs and the finally block clears isProcessing.  It returns no event:
\* the call returns through the finally block.  Otherwise the events are
\* handed to publishEvent.
TickFetch ==
  /\ pub.isProcessing
  /\ ~pub.fetched
  /\ \/ /\ faults < MaxFaults
        /\ faults' = faults + 1
        /\ pub' = [pub EXCEPT !.fetched = TRUE, !.isProcessing = FALSE]
     \/ /\ UNCHANGED faults
        /\ \E events \in getUnpublishedEvents(BATCH_SIZE, MAX_RETRIES) :
             IF Len(events) = 0
             THEN pub' = [pub EXCEPT !.fetched = TRUE, !.isProcessing = FALSE]
             ELSE pub' = [pub EXCEPT !.fetched = TRUE, !.batch = events,
                                     !.at = [k \in 1..Len(events) |-> "pending"]]
  /\ UNCHANGED <<payments, outbox, outboxSeq, bus, now, links, intent, req, rowLock,
                 proc, publisher, sent>>

\* Promise.allSettled resolves for the batch that was fetched.
TickSettled == pub.fetched /\ TickEnd

InitTick ==
  /\ publisher = "service"
  /\ \E seed \in SeededPayments : \E n \in 1..MaxOutbox :
     \E h \in [1..n -> Kinds(publisher)] : \E ts \in Stamps(n) :
       LET start == [payments |-> seed, outbox |-> << >>, outboxSeq |-> 0]
           tables == After(start, h, ts)
       IN /\ Possible(start, h)
          /\ payments = tables.payments
          /\ outbox = tables.outbox
          /\ outboxSeq = tables.outboxSeq
          /\ now = ts[n]
  /\ bus = << >>
  /\ links = 1
  /\ intent = [c \in Calls |-> IdleIntent]
  /\ req = EmptyBag
  /\ rowLock = {}
  /\ pub = IdleTick
  /\ proc = IdleProc
  /\ faults = 0
  /\ sent = NoAnswer

NextTick ==
  \/ TickBegin
  \/ TickFetch
  \/ \E k \in DOMAIN pub.at : PublishSend(k)
  \/ \E k \in DOMAIN pub.at : PublishMark(k)
  \/ TickSettled
  \/ OnModuleDestroy
  \/ DestroyComplete
  \/ ProducerDisconnect

SpecTick == InitTick /\ [][NextTick]_vars

\* An await of the tick in progress returns or throws in the end (the
\* store's and the producer's calls time out), and the polling loop of the
\* shutdown hook keeps running.
SpecTickFair ==
  /\ SpecTick
  /\ WF_vars(TickFetch)
  /\ WF_vars(\E k \in DOMAIN pub.at : PublishSend(k))
  /\ WF_vars(\E k \in DOMAIN pub.at : PublishMark(k))
  /\ WF_vars(TickSettled)
  /\ WF_vars(DestroyComplete)

\* ======================================================================
\* C39  The in-progress flag is always cleared.  While isProcessing is set
\* the tick still has something to do (its fetch has not returned, or a
\* batch is being published): a tick whose fetch threw or returned nothing
\* has cleared the flag.  Every tick that set the flag clears it in the
\* end, so a later tick is not blocked forever, and a shutdown that waits
\* for the tick in progress completes.
C39_FlagAlwaysCleared ==
  /\ []((pub.isProcessing /\ pub.fetched) => pub.batch # << >>)
  /\ (pub.isProcessing ~> ~pub.isProcessing)
  /\ (pub.destroy = "waiting" ~> pub.destroy = "complete")

\* The shutdown hook has completed after a tick in which a publish failed,
\* and the flag is clear.
C39_Witness ==
  /\ pub.destroy = "complete"
  /\ pub.isShuttingDown
  /\ ~pub.isProcessing
  /\ pub.fetched
  /\ pub.producer = "connected"
  /\ \E j \in Ids(outbox) : outbox[j].retryCount > 0

\* The valid ZaloPay callback for the app_trans_id that createPaymentIntent
\* stored with payment i.
CallbackFor(i) ==
  [provider |-> "ZALOPAY", sigOk |-> TRUE, type |-> 1,
   ptx |-> payments[i].providerTransactionId]

\* ======================================================================
\* C40  The app_trans_id leads back to its payment.  For every stored
\* ZaloPay payment, the valid callback that carries the app_trans_id issued
\* at its creation is accepted by either ingress's adapter and resolves to
\* that payment and no other, whatever characters its order code is made
\* of.
C40_AppTransIdResolvesToPayment ==
  \A i \in Ids(payments) :
    payments[i].provider = "ZALOPAY" =>
      LET body == CallbackFor(i) IN
      /\ ServiceCallback(body).success
      /\ findByProviderTransactionId(ServiceCallback(body).pid[1]) = <<i>>
      /\ LambdaCallback(body).success
      /\ ResolveOrderCode("ZALOPAY", body.ptx) = <<payments[i].orderCode>>
      /\ findByOrderCode(payments[i].orderCode) = <<i>>
====
